---- MODULE Spec2Model ----
(***************************************************************************)
(* Model of the Big Yellow Jacket security core:                           *)
(*   - AdvancedThreatDetector (analyzers/advanced_threat_detector.py)      *)
(*   - AlertSystem            (core/alert_system.py)                       *)
(*   - PortBlocker            (core/port_blocker.py)                       *)
(*   - SecureFirewallManager  (core/secure_firewall.py)                    *)
(* Each component has its own specification over the shared variables; the *)
(* variables of the other components stay at their constructed values.     *)
(***************************************************************************)
EXTENDS Integers, Sequences, FiniteSets, TLC

VARIABLES
    \* ---- AdvancedThreatDetector ----
    now,                   \* time.time(), in seconds
    connection_frequency,  \* src_ip -> list of timestamps
    malicious_ips,         \* self.malicious_ips
    threat_intel_ips,      \* self.threat_intel['malicious_ips']
    suspicious_ips,        \* defaultdict(int): the keys present and their counters
    result,                \* what the last detector call returned
    observed,              \* history: src_ip -> times of all analyze_packet calls
    \* ---- AlertSystem ----
    clock_ms,              \* int(time.time() * 1000)
    alerts,                \* self.alerts: alert id -> the Alert object
    alert_history,         \* self.alert_history: the Alert objects, by position
    stats,                 \* self.stats
    subscribers,           \* self.subscribers
    alert_rules,           \* self.alert_rules: the rule names, in registration order
    tasks,                 \* per task: the stack of create_alert calls in progress
    running,               \* the task the event loop is executing, 0 when idle
    alert_result,          \* what the last acknowledge / resolve returned
    rule_log,              \* history: the rule evaluations, in order
    sent_log,              \* history: the delivery attempts, in order
    returned,              \* history: the finished external create_alert calls
    \* ---- files, PortBlocker, SecureFirewallManager ----
    fs,                    \* path -> content of the file, or Absent
    os_rules,              \* the port DROP rules block_port put into the OS firewall
    system,                \* platform.system().lower()
    port_result,           \* what the last PortBlocker call returned
    fw_result,             \* the last thing that happened to the encrypted store:
                           \* a call and what it returned, or a change from outside
    io,                    \* the store calls in progress, innermost last
    baseline,              \* history: per verified file, the content it had when
                           \* its hash file was written
    faults,                \* history: how many step-by-step calls were started
                           \* (.calls), and how many file accesses failed or
                           \* kills of the process happened (.failed)
    \* ---- WebSocketManager and the websocket handlers ----
    connections,           \* ws_manager.connections, the live set
    handler,               \* per connection, where its websocket_handler is
    broadcasting,          \* the broadcast in progress: the connections of the
                           \* copy still to be served (.todo) and the one whose
                           \* send is awaited (.cur)
    ws_hist                \* history: the connections ever registered
                           \* (.registered), those something was sent to
                           \* (.sent), and those a failed broadcast removed
                           \* while their handler was running (.dropped)

detVars == <<now, connection_frequency, malicious_ips, threat_intel_ips,
             suspicious_ips, result, observed>>

alertVars == <<clock_ms, alerts, alert_history, stats, subscribers, alert_rules,
               tasks, running, alert_result, rule_log, sent_log, returned>>

storeVars == <<fs, os_rules, system, port_result, fw_result, io, baseline, faults>>

wsVars == <<connections, handler, broadcasting, ws_hist>>

vars == <<detVars, alertVars, storeVars, wsVars>>

----------------------------------------------------------------------------
(* Generic helpers                                                         *)

Range(s) == {s[i] : i \in DOMAIN s}

Min(a, b) == IF a < b THEN a ELSE b

\* Python list comprehension [x for x in s if Test(x)]
Filter(s, Test(_)) == SelectSeq(s, Test)

----------------------------------------------------------------------------
(* AdvancedThreatDetector                                                  *)

\* Payloads are sequences of text atoms.  BadByte stands for a byte sequence
\* that is not valid UTF-8, NL for a line break.
BadByte == "\\xff"
NL == "\\n"

\* str.lower() on one atom
Lower(t) ==
    CASE t = "UNION" -> "union"
      [] t = "SELECT" -> "select"
      [] t = "Failed password" -> "failed password"
      [] t = "%2E%2E%2F" -> "%2e%2e%2f"
      [] OTHER -> t

\* the text on both sides of a dropped byte sequence runs together
RECURSIVE Glue(_)
Glue(s) ==
    IF Len(s) < 2 THEN s
    ELSE IF s[1] = "un" /\ s[2] = "ion"
         THEN <<"union">> \o Glue(SubSeq(s, 3, Len(s)))
         ELSE <<s[1]>> \o Glue(Tail(s))

\* packet_data.decode('utf-8', errors='ignore').lower()
DecodeOk(t) == t # BadByte
Decode(payload) ==
    LET kept == Glue(SelectSeq(payload, DecodeOk))
    IN  [i \in DOMAIN kept |-> Lower(kept[i])]

SqlVerb == {"union", "select", "insert", "delete", "drop", "update"}
SqlTarget == {"from", "into", "where"}
\* the last atom stands for the backquote character
ShellSep == {"|", "&", ";", "$(", "BACKQUOTE"}
ShellCmd == {"ls", "cat", "whoami", "id", "pwd", "ps", "netstat"}

\* atom i is followed by atom j with only non-newline text between them:
\* what '.*' and '.*?' can span (re.search without DOTALL)
SameLine(s, i, j) == i < j /\ \A k \in (i + 1)..(j - 1) : s[k] # NL

\* A .* B for atoms of class A and B
Follows(s, A, B) ==
    \E i \in DOMAIN s : \E j \in DOMAIN s :
        s[i] \in A /\ s[j] \in B /\ SameLine(s, i, j)

\* re.search(config['pattern'], packet_str, re.IGNORECASE): the patterns are
\* matched case-insensitively, the text is lower case already
re_search(threat_type, s) ==
    CASE threat_type = "port_scan" ->
            Follows(s, {"1.2.3.4"}, {"5 ports"})
      [] threat_type = "brute_force" ->
            Follows(s, {"failed password"}, {"1.2.3.4"})
      [] threat_type = "sql_injection" ->
            Follows(s, SqlVerb, SqlTarget)
      [] threat_type = "xss_attack" ->
            \/ Follows(s, {"<script>"}, {"</script>"})
            \/ \E i \in DOMAIN s : s[i] = "javascript:"
      [] threat_type = "directory_traversal" ->
            \E i \in DOMAIN s : s[i] \in {"../", "%2e%2e%2f"}
      [] threat_type = "command_injection" ->
            Follows(s, ShellSep, ShellCmd)
      [] OTHER -> FALSE

\* self.threat_patterns, in insertion order
threat_patterns ==
    << [type |-> "port_scan", severity |-> "medium"],
       [type |-> "brute_force", severity |-> "high"],
       [type |-> "sql_injection", severity |-> "critical"],
       [type |-> "xss_attack", severity |-> "high"],
       [type |-> "directory_traversal", severity |-> "medium"],
       [type |-> "command_injection", severity |-> "critical"] >>

max_connections_per_minute == 100

\* _get_severity_score
SeverityScore(severity) ==
    CASE severity = "low" -> 10
      [] severity = "medium" -> 25
      [] severity = "high" -> 50
      [] severity = "critical" -> 100
      [] OTHER -> 0

\* confidences are kept in hundredths: 0.9 is 90
Finding(type, severity, confidence) ==
    [type |-> type, severity |-> severity, confidence |-> confidence]

RECURSIVE SignatureFindingsFirstOnly(_, _)
SignatureFindingsFirstOnly(packet_str, k) ==
    IF k > Len(threat_patterns) THEN <<>>
    ELSE IF re_search(threat_patterns[k].type, packet_str)
         THEN <<Finding(threat_patterns[k].type, threat_patterns[k].severity, 90)>>
         ELSE SignatureFindingsFirstOnly(packet_str, k + 1)

\* the loop over self.threat_patterns: one finding per matching signature
RECURSIVE SignatureFindings(_, _)
SignatureFindings(packet_str, k) ==
    IF k > Len(threat_patterns) THEN <<>>
    ELSE (IF re_search(threat_patterns[k].type, packet_str)
          THEN <<Finding(threat_patterns[k].type, threat_patterns[k].severity, 90)>>
          ELSE <<>>)
         \o SignatureFindings(packet_str, k + 1)

RECURSIVE SumScores(_)
SumScores(findings) ==
    IF findings = <<>> THEN 0
    ELSE SeverityScore(Head(findings).severity) + SumScores(Tail(findings))

PrunedWindowUnpruned(window, current_time) == Append(window, current_time)

\* the list kept for src_ip after the append and the one-hour pruning
PrunedWindow(window, current_time) ==
    LET cutoff_time == current_time - 3600
        Keep(t) == t > cutoff_time
    IN  Filter(Append(window, current_time), Keep)

\* recent_connections of _analyze_behavior
RecentConnections(window, current_time) ==
    LET InLastMinute(t) == t > current_time - 60
    IN  Len(Filter(window, InLastMinute))

IsFloodingAtThreshold(recent_connections) ==
    recent_connections >= max_connections_per_minute

IsFlooding(recent_connections) ==
    recent_connections > max_connections_per_minute

DetectPortScanningOverTen(window) == Len(window) > 10

\* _detect_port_scanning
DetectPortScanning(window) ==
    IF Len(window) < 10 THEN FALSE ELSE Len(window) > 20

\* _analyze_behavior, on the window as already appended to and pruned
BehaviorFindings(window, current_time) ==
    (IF IsFlooding(RecentConnections(window, current_time))
     THEN <<Finding("connection_flooding", "high", 80)>> ELSE <<>>)
    \o
    (IF DetectPortScanning(window)
     THEN <<Finding("port_scanning", "medium", 70)>> ELSE <<>>)

\* suspicious_ips[src_ip]: reading a defaultdict creates the missing key
SuspicionRead(susp, src_ip) ==
    IF src_ip \in DOMAIN susp THEN susp
    ELSE [k \in DOMAIN susp \cup {src_ip} |-> IF k = src_ip THEN 0 ELSE susp[k]]

\* _check_ip_reputation
ReputationFindings(intel, susp, src_ip) ==
    (IF src_ip \in intel
     THEN <<Finding("malicious_ip", "critical", 95)>> ELSE <<>>)
    \o
    (IF SuspicionRead(susp, src_ip)[src_ip] > 3
     THEN <<Finding("suspicious_ip", "medium", 60)>> ELSE <<>>)

RiskUnclamped(risk_score) == risk_score

\* risk_score = min(risk_score, 100)
RiskClamp(risk_score) == Min(risk_score, 100)

\* analyze_packet(packet_data, src_ip, ...)
AnalyzePacket(packet_data, src_ip) ==
    LET packet_str == Decode(packet_data)
        sig == SignatureFindings(packet_str, 1)
        risk_score == SumScores(sig)
        window == PrunedWindow(connection_frequency[src_ip], now)
        behavioral_threats == BehaviorFindings(window, now)
        reputation_threats ==
            ReputationFindings(threat_intel_ips, suspicious_ips, src_ip)
    IN  /\ connection_frequency' =
               [connection_frequency EXCEPT ![src_ip] = window]
        /\ suspicious_ips' = SuspicionRead(suspicious_ips, src_ip)
        /\ result' = [op |-> "analyze_packet",
                      threats |-> sig \o behavioral_threats \o reputation_threats,
                      risk_score |-> RiskClamp(risk_score),
                      src_ip |-> src_ip,
                      at |-> now]
        /\ observed' = [observed EXCEPT ![src_ip] = Append(@, now)]
        /\ UNCHANGED <<now, malicious_ips, threat_intel_ips>>

\* add_malicious_ip(ip)
AddMaliciousIp(ip) ==
    /\ threat_intel_ips' = threat_intel_ips \cup {ip}
    /\ malicious_ips' = malicious_ips \cup {ip}
    /\ result' = [op |-> "add_malicious_ip", ip |-> ip]
    /\ UNCHANGED <<now, connection_frequency, suspicious_ips, observed>>

\* ipaddress.ip_address(ip) accepts the text
ValidIp(ip) == ip \in {"1.2.3.4", "10.0.0.66", "127.0.0.1", "192.168.1.1"}

\* block_ip(ip, duration): False for a text that is no IP address
BlockIp(ip) ==
    /\ malicious_ips' = IF ValidIp(ip) THEN malicious_ips \cup {ip} ELSE malicious_ips
    /\ result' = [op |-> "block_ip", ip |-> ip, ok |-> ValidIp(ip)]
    /\ UNCHANGED <<now, connection_frequency, threat_intel_ips, suspicious_ips,
                   observed>>

\* the clock moves on by d seconds
DetTick(d) ==
    /\ now' = now + d
    /\ UNCHANGED <<connection_frequency, malicious_ips, threat_intel_ips,
                   suspicious_ips, result, observed>>

\* unblock_ip of the REST API: removes ip from the detector's malicious_ips
UnblockIp(ip) ==
    /\ malicious_ips' = malicious_ips \ {ip}
    /\ result' = [op |-> "unblock_ip", ip |-> ip, ok |-> ip \in malicious_ips]
    /\ UNCHANGED <<now, connection_frequency, threat_intel_ips, suspicious_ips,
                   observed>>

SrcIPs == {"10.0.0.66", "127.0.0.1"}
IpTexts == SrcIPs \cup {"not-an-ip"}

\* the detector as constructed by __init__
DetInit ==
    /\ now = 0
    /\ connection_frequency = [s \in SrcIPs |-> <<>>]
    /\ malicious_ips = {}
    /\ threat_intel_ips = {}
    /\ suspicious_ips = [k \in {} |-> 0]
    /\ result = [op |-> "none"]
    /\ observed = [s \in SrcIPs |-> <<>>]

----------------------------------------------------------------------------
(* AlertSystem                                                             *)

\* source_ip=None
NoneVal == "<None>"

\* Alert.__init__; an alert id "ALERT_<ms>" is kept as the number <ms>
Alert(alert_id, args) ==
    [id |-> alert_id, type |-> args.type, severity |-> args.severity,
     source_ip |-> args.source_ip, metadata |-> args.metadata,
     acknowledged |-> FALSE, resolved |-> FALSE, auto_resolved |-> FALSE]

CreateArgs(type, severity, source_ip, metadata) ==
    [type |-> type, severity |-> severity, source_ip |-> source_ip,
     metadata |-> metadata]

\* d[k] = v on a dict
Put(d, k, v) == [x \in DOMAIN d \cup {k} |-> IF x = k THEN v ELSE d[x]]

\* _generate_alert_id
GenerateAlertId == clock_ms

\* the rules registered by _setup_default_rules
DefaultRules ==
    <<"Critical Threat Detection", "IP Blocking Alert", "High Severity Alert">>

\* rule['condition'](alert)
RuleCondition(rule, alert) ==
    CASE rule = "Critical Threat Detection" -> alert.severity = "critical"
      [] rule = "IP Blocking Alert" -> alert.type = "ip_blocked"
      [] rule = "High Severity Alert" -> alert.severity = "high"
      [] rule = "raising action" -> TRUE
      [] OTHER -> FALSE

\* callables a caller registers with add_alert_rule: a condition that raises,
\* and a condition that holds with an action that raises
CustomRules == {"raising condition", "raising action"}

\* rule['condition'](alert) or rule['action'](alert) raises
RuleRaises(rule, alert) ==
    \/ rule = "raising condition"
    \/ rule = "raising action" /\ RuleCondition(rule, alert)

\* Python truth value of alert.source_ip
Truthy(source_ip) == source_ip \notin {NoneVal, ""}

AutoBlockTriggeredAnyType(alert) == Truthy(alert.source_ip)

\* the test of _handle_critical_alert
AutoBlockTriggered(alert) ==
    Truthy(alert.source_ip) /\ alert.type = "threat_detected"

\* rule['action'](alert) calls create_alert
RuleActionCreates(rule, alert) ==
    rule = "Critical Threat Detection" /\ AutoBlockTriggered(alert)

AutoBlockArgsRetriggering(ip) ==
    CreateArgs("threat_detected", "critical", ip, "auto_blocked")

AutoBlockArgsUnmarked(ip) == CreateArgs("ip_blocked", "high", ip, "none")

\* the arguments _auto_block_ip passes to create_alert
AutoBlockArgs(ip) == CreateArgs("ip_blocked", "high", ip, "auto_blocked")

StoreAlertAtFront(args) ==
    /\ alert_history' = <<Alert(GenerateAlertId, args)>> \o alert_history
    /\ alerts' = Put(alerts, GenerateAlertId, Len(alert_history) + 1)
    /\ stats' = [stats EXCEPT !.total_alerts = @ + 1, !.active_alerts = @ + 1]

\* create_alert up to the call of _process_alert: the id, the Alert object,
\* the registry, the history and the statistics
StoreAlert(args) ==
    LET alert_id == GenerateAlertId
        obj == Len(alert_history) + 1
    IN  /\ alert_history' = Append(alert_history, Alert(alert_id, args))
        /\ alerts' = Put(alerts, alert_id, obj)
        /\ stats' = [stats EXCEPT
               !.total_alerts = @ + 1,
               !.critical_alerts =
                   IF args.severity = "critical" THEN @ + 1 ELSE @,
               !.active_alerts = @ + 1]

\* one create_alert call in progress: the alert, the position in the code, the
\* index of the rule loop, the list iterator (i) and loop variable (ws) of
\* _notify_subscribers and its local list "disconnected".
\* History kept with the call: the alerts its rules created (children), the
\* subscriber list when the publish started (start), whether every later look
\* at the list found it as it was then (steady), and the subscribers of
\* "start" that nobody has removed since (kept).
FramePublishesFirst(obj) ==
    [alert |-> obj, pc |-> "notify", rule |-> 1, i |-> 0, ws |-> "",
     disconnected |-> <<>>, children |-> <<>>,
     start |-> <<>>, steady |-> TRUE, kept |-> {}]

Frame(obj) ==
    [alert |-> obj, pc |-> "rules", rule |-> 1, i |-> 0, ws |-> "",
     disconnected |-> <<>>, children |-> <<>>,
     start |-> <<>>, steady |-> TRUE, kept |-> {}]

Top(t) == tasks[t][Len(tasks[t])]

SetTop(t, f) == [tasks EXCEPT ![t] = [@ EXCEPT ![Len(@)] = f]]

\* an external caller (a REST handler) awaits create_alert(...)
CreateAlert(t, args) ==
    /\ running = 0
    /\ tasks[t] = <<>>
    /\ StoreAlert(args)
    /\ tasks' = [tasks EXCEPT ![t] = <<Frame(Len(alert_history) + 1)>>]
    /\ running' = t
    /\ UNCHANGED <<clock_ms, subscribers, alert_rules, alert_result, rule_log,
                   sent_log, returned>>

RuleFailureEscapes(t) ==
    /\ tasks' = [tasks EXCEPT ![t] = <<>>]
    /\ running' = 0
    /\ UNCHANGED <<alerts, alert_history, stats>>

\* except Exception in the rule loop: the message is printed and the loop
\* goes on with the next rule
RuleFailure(t) ==
    /\ tasks' = SetTop(t, [Top(t) EXCEPT !.rule = @ + 1])
    /\ UNCHANGED <<alerts, alert_history, stats, running>>

\* _process_alert: one iteration of the loop over self.alert_rules
ProcessAlert(t) ==
    /\ running = t
    /\ tasks[t] # <<>>
    /\ Top(t).pc = "rules"
    /\ LET f == Top(t)
           alert == alert_history[f.alert]
       IN  IF f.rule > Len(alert_rules)
           THEN /\ tasks' = SetTop(t, [f EXCEPT !.pc = "notify"])
                /\ UNCHANGED <<alerts, alert_history, stats, rule_log, running>>
           ELSE /\ rule_log' = Append(rule_log,
                        [alert |-> f.alert, rule |-> alert_rules[f.rule]])
                /\ IF RuleRaises(alert_rules[f.rule], alert)
                   THEN RuleFailure(t)
                   ELSE IF /\ RuleCondition(alert_rules[f.rule], alert)
                      /\ RuleActionCreates(alert_rules[f.rule], alert)
                   THEN \* _auto_block_ip: the nested create_alert call
                        /\ UNCHANGED running
                        /\ StoreAlert(AutoBlockArgs(alert.source_ip))
                        /\ tasks' = [tasks EXCEPT ![t] =
                               Append([@ EXCEPT ![Len(@)] =
                                          [f EXCEPT !.rule = @ + 1,
                                                    !.children =
                                                        Append(@, Len(alert_history) + 1)]],
                                      Frame(Len(alert_history) + 1))]
                   ELSE /\ tasks' = SetTop(t, [f EXCEPT !.rule = @ + 1])
                        /\ UNCHANGED <<alerts, alert_history, stats, running>>
    /\ UNCHANGED <<clock_ms, subscribers, alert_rules, alert_result,
                   sent_log, returned>>

\* list.remove(x) guarded by "x in list": drops the first occurrence
RECURSIVE RemoveFirst(_, _)
RemoveFirst(list, x) ==
    IF list = <<>> THEN <<>>
    ELSE IF Head(list) = x THEN Tail(list)
    ELSE <<Head(list)>> \o RemoveFirst(Tail(list), x)

\* for ws in disconnected: self.remove_subscriber(ws)
RECURSIVE RemoveAll(_, _)
RemoveAll(list, gone) ==
    IF gone = <<>> THEN list
    ELSE RemoveAll(RemoveFirst(list, Head(gone)), Tail(gone))

\* History: the calls of the tasks other than t note that the subscribers in
\* "gone" were removed from the list.
Unkeep(tk, t, gone) ==
    [u \in DOMAIN tk |->
        IF u = t THEN tk[u]
        ELSE [k \in DOMAIN tk[u] |-> [tk[u][k] EXCEPT !.kept = @ \ gone]]]

\* _notify_subscribers: the test for no subscribers and the start of the loop
NotifyStart(t) ==
    /\ running = t
    /\ tasks[t] # <<>>
    /\ Top(t).pc = "notify"
    /\ tasks' = SetTop(t, [Top(t) EXCEPT
           !.pc = IF subscribers = <<>> THEN "return" ELSE "loop",
           !.i = 0, !.disconnected = <<>>,
           !.start = subscribers, !.kept = Range(subscribers)])
    /\ UNCHANGED <<clock_ms, alerts, alert_history, stats, subscribers,
                   alert_rules, running, alert_result, rule_log, sent_log,
                   returned>>

\* "for ws in self.subscribers" steps the list iterator over the live list and
\* awaits ws.send_str(...), or the loop ends and the disconnected are removed
NotifyLoop(t) ==
    /\ running = t
    /\ tasks[t] # <<>>
    /\ Top(t).pc = "loop"
    /\ IF Top(t).i < Len(subscribers)
       THEN /\ tasks' = SetTop(t, [Top(t) EXCEPT
                   !.pc = "send", !.i = @ + 1,
                   !.ws = subscribers[Top(t).i + 1],
                   !.steady = @ /\ subscribers = Top(t).start])
            /\ running' = 0
            /\ UNCHANGED subscribers
       ELSE /\ tasks' = Unkeep(SetTop(t, [Top(t) EXCEPT
                   !.pc = "return",
                   !.steady = @ /\ subscribers = Top(t).start]),
                   t, Range(Top(t).disconnected))
            /\ subscribers' = RemoveAll(subscribers, Top(t).disconnected)
            /\ UNCHANGED running
    /\ UNCHANGED <<clock_ms, alerts, alert_history, stats, alert_rules,
                   alert_result, rule_log, sent_log, returned>>

SendDoneKeepsFailed(t, ws, ok) ==
    /\ running = 0
    /\ tasks[t] # <<>>
    /\ Top(t).pc = "send"
    /\ running' = t
    /\ sent_log' = Append(sent_log, [ws |-> ws, alert |-> Top(t).alert, ok |-> ok])
    /\ tasks' = SetTop(t, [Top(t) EXCEPT !.pc = "loop"])
    /\ UNCHANGED <<clock_ms, alerts, alert_history, stats, subscribers,
                   alert_rules, alert_result, rule_log, returned>>

\* the awaited send to ws finishes: it went through, or it raised
SendDone(t, ws, ok) ==
    /\ running = 0
    /\ tasks[t] # <<>>
    /\ Top(t).pc = "send"
    /\ running' = t
    /\ sent_log' = Append(sent_log, [ws |-> ws, alert |-> Top(t).alert, ok |-> ok])
    /\ tasks' = SetTop(t, [Top(t) EXCEPT
           !.pc = "loop",
           !.disconnected = IF ok THEN @ ELSE Append(@, ws)])
    /\ UNCHANGED <<clock_ms, alerts, alert_history, stats, subscribers,
                   alert_rules, alert_result, rule_log, returned>>

\* create_alert returns the alert to its caller
ReturnAlert(t) ==
    /\ running = t
    /\ tasks[t] # <<>>
    /\ Top(t).pc = "return"
    /\ tasks' = [tasks EXCEPT ![t] = SubSeq(@, 1, Len(@) - 1)]
    /\ IF Len(tasks[t]) = 1
       THEN /\ running' = 0
            /\ returned' = Append(returned,
                   [alert |-> Top(t).alert, children |-> Top(t).children])
       ELSE UNCHANGED <<running, returned>>
    /\ UNCHANGED <<clock_ms, alerts, alert_history, stats, subscribers,
                   alert_rules, alert_result, rule_log, sent_log>>

\* add_subscriber
AddSubscriber(ws) ==
    /\ running = 0
    /\ subscribers' = Append(subscribers, ws)
    /\ UNCHANGED <<clock_ms, alerts, alert_history, stats, alert_rules, tasks,
                   running, alert_result, rule_log, sent_log, returned>>

\* remove_subscriber
RemoveSubscriber(ws) ==
    /\ running = 0
    /\ subscribers' = RemoveFirst(subscribers, ws)
    /\ tasks' = Unkeep(tasks, 0, {ws})
    /\ UNCHANGED <<clock_ms, alerts, alert_history, stats, alert_rules,
                   running, alert_result, rule_log, sent_log, returned>>

\* add_alert_rule
AddAlertRule(name) ==
    /\ running = 0
    /\ alert_rules' = Append(alert_rules, name)
    /\ UNCHANGED <<clock_ms, alerts, alert_history, stats, subscribers, tasks,
                   running, alert_result, rule_log, sent_log, returned>>

AcknowledgeAlertReopens(alert_id) ==
    /\ running = 0
    /\ alert_id \in DOMAIN alerts
    /\ alert_history' = [alert_history EXCEPT
           ![alerts[alert_id]].acknowledged = TRUE,
           ![alerts[alert_id]].resolved = FALSE]
    /\ alert_result' = [op |-> "acknowledge", id |-> alert_id, ok |-> TRUE]
    /\ UNCHANGED <<clock_ms, alerts, stats, subscribers, alert_rules, tasks,
                   running, rule_log, sent_log, returned>>

\* acknowledge_alert
AcknowledgeAlert(alert_id) ==
    /\ running = 0
    /\ IF alert_id \in DOMAIN alerts
       THEN /\ alert_history' = [alert_history EXCEPT
                   ![alerts[alert_id]].acknowledged = TRUE]
            /\ alert_result' = [op |-> "acknowledge", id |-> alert_id, ok |-> TRUE]
       ELSE /\ alert_result' = [op |-> "acknowledge", id |-> alert_id, ok |-> FALSE]
            /\ UNCHANGED alert_history
    /\ UNCHANGED <<clock_ms, alerts, stats, subscribers, alert_rules, tasks,
                   running, rule_log, sent_log, returned>>

ResolveAlertUnchecked(alert_id) ==
    /\ running = 0
    /\ alert_history' =
           IF alert_id \in DOMAIN alerts
           THEN [alert_history EXCEPT ![alerts[alert_id]].resolved = TRUE]
           ELSE alert_history
    /\ stats' = [stats EXCEPT !.resolved_alerts = @ + 1,
                              !.active_alerts = @ - 1]
    /\ alert_result' = [op |-> "resolve", id |-> alert_id,
                        ok |-> alert_id \in DOMAIN alerts]
    /\ UNCHANGED <<clock_ms, alerts, subscribers, alert_rules, tasks, running,
                   rule_log, sent_log, returned>>

ResolveAlertUncounted(alert_id) ==
    /\ running = 0
    /\ alert_history' =
           IF alert_id \in DOMAIN alerts
           THEN [alert_history EXCEPT ![alerts[alert_id]].resolved = TRUE]
           ELSE alert_history
    /\ alert_result' = [op |-> "resolve", id |-> alert_id,
                        ok |-> alert_id \in DOMAIN alerts]
    /\ UNCHANGED <<clock_ms, alerts, stats, subscribers, alert_rules, tasks,
                   running, rule_log, sent_log, returned>>

\* resolve_alert
ResolveAlertRedelivers(alert_id) ==
    /\ running = 0
    /\ alert_id \in DOMAIN alerts
    /\ alert_history' = [alert_history EXCEPT ![alerts[alert_id]].resolved = TRUE]
    /\ stats' = [stats EXCEPT !.resolved_alerts = @ + 1,
                              !.active_alerts = @ - 1]
    /\ alert_result' = [op |-> "resolve", id |-> alert_id, ok |-> TRUE]
    /\ rule_log' = Append(rule_log,
           [alert |-> alerts[alert_id], rule |-> alert_rules[1]])
    /\ UNCHANGED <<clock_ms, alerts, subscribers, alert_rules, tasks, running,
                   sent_log, returned>>

ResolveAlert(alert_id) ==
    /\ running = 0
    /\ IF alert_id \in DOMAIN alerts
       THEN /\ alert_history' = [alert_history EXCEPT
                   ![alerts[alert_id]].resolved = TRUE]
            /\ stats' = [stats EXCEPT !.resolved_alerts = @ + 1,
                                      !.active_alerts = @ - 1]
            /\ alert_result' = [op |-> "resolve", id |-> alert_id, ok |-> TRUE]
       ELSE /\ alert_result' = [op |-> "resolve", id |-> alert_id, ok |-> FALSE]
            /\ UNCHANGED <<alert_history, stats>>
    /\ UNCHANGED <<clock_ms, alerts, subscribers, alert_rules, tasks, running,
                   rule_log, sent_log, returned>>

\* get_active_alerts: the alerts of the registry that are not resolved (as
\* the set of their positions in the history)
GetActiveAlerts ==
    {alerts[id] : id \in {k \in DOMAIN alerts : ~alert_history[alerts[k]].resolved}}

\* one more millisecond on the clock
AlertTick ==
    /\ clock_ms' = clock_ms + 1
    /\ UNCHANGED <<alerts, alert_history, stats, subscribers, alert_rules, tasks,
                   running, alert_result, rule_log, sent_log, returned>>

TaskIds == {1, 2}

\* the alert system as constructed by __init__
AlertInit ==
    /\ clock_ms = 1
    /\ alerts = [k \in {} |-> 0]
    /\ alert_history = <<>>
    /\ stats = [total_alerts |-> 0, critical_alerts |-> 0,
                resolved_alerts |-> 0, active_alerts |-> 0]
    /\ subscribers = <<>>
    /\ alert_rules = DefaultRules
    /\ tasks = [t \in TaskIds |-> <<>>]
    /\ running = 0
    /\ alert_result = [op |-> "none"]
    /\ rule_log = <<>>
    /\ sent_log = <<>>
    /\ returned = <<>>

----------------------------------------------------------------------------
(* FileEncryption and the files of the working directory                   *)

\* What a path holds: nothing, a text (the list of its lines), or a Fernet
\* token.  A token carries the key it was made with, its random IV, the
\* bytes it encrypts (data) and what kind of content they were (inner).
Absent == [kind |-> "absent", key |-> "", iv |-> "", inner |-> <<>>, data |-> <<>>]
Text(lines) == [kind |-> "text", key |-> "", iv |-> "", inner |-> <<>>, data |-> lines]

\* os.path.exists(path)
Exists(f, path) == f[path].kind # "absent"

\* the key _derive_key derives from the master password
MasterKey == "BigYellowJacket2024!Secure"

\* cipher.encrypt(file_data): a token that only the same key opens
Encrypt(key, content, iv) ==
    [kind |-> "fernet", key |-> key, iv |-> iv,
     inner |-> <<content.kind, content.key, content.iv>> \o content.inner,
     data |-> content.data]

DecryptAsText(key, token) == Text(token.data)

\* cipher.decrypt(encrypted_data), for a token the key opens
Decrypt(key, token) ==
    [kind |-> token.inner[1], key |-> token.inner[2], iv |-> token.inner[3],
     inner |-> SubSeq(token.inner, 4, Len(token.inner)), data |-> token.data]

\* cipher.decrypt(encrypted_data) does not raise InvalidToken
CanDecrypt(key, token) == token.kind = "fernet" /\ token.key = key

EncPath(path) == path \o ".encrypted"
BackupPath(path) == path \o ".backup"
HashPath(path) == path \o ".hash"

\* the files verify_file_integrity is called for, and their hash files
VerifiedPaths ==
    {"data/blocked_ips.txt.encrypted", "data/whitelist.txt.encrypted",
     "temp_firewall_rules.json"}

HashPaths == {HashPath(p) : p \in VerifiedPaths}

\* hashlib.sha256(file_data).hexdigest(): different contents have different
\* digests; the digest is kept as the list of everything it depends on
Sha256(content) ==
    <<content.kind, content.key, content.iv>> \o content.inner \o content.data

\* Fernet draws the IV of every token from os.urandom: the new token differs
\* from every token in the files and from every token a hash file remembers
IVs == <<"iv1", "iv2", "iv3", "iv4">>

SameToken(a, b) ==
    /\ a.kind = b.kind /\ a.key = b.key /\ a.iv = b.iv
    /\ a.inner = b.inner /\ Len(a.data) = Len(b.data) /\ a.data = b.data

TakenIvs(f, content) ==
    {k \in DOMAIN IVs :
        LET token == Encrypt(MasterKey, content, IVs[k])
        IN  \/ \E p \in DOMAIN f : SameToken(f[p], token)
            \/ \E h \in HashPaths \cap DOMAIN f : f[h].data = Sha256(token)}

FreshIv(f, content) ==
    LET free == DOMAIN IVs \ TakenIvs(f, content)
    IN  IF free = {} THEN "iv0"
        ELSE IVs[CHOOSE k \in free : \A j \in free : k <= j]

\* encrypt_file(file_path): the files afterwards and the value returned
EncryptFile(f, file_path) ==
    IF ~Exists(f, file_path)
    THEN [ok |-> FALSE, fs |-> f]
    ELSE [ok |-> TRUE,
          fs |-> [f EXCEPT ![EncPath(file_path)] =
                               Encrypt(MasterKey, f[file_path], FreshIv(f, f[file_path])),
                           ![BackupPath(file_path)] = f[file_path],
                           ![file_path] = Absent]]

\* decrypt_file(encrypted_path, output_path)
DecryptFile(f, encrypted_path, output_path) ==
    IF CanDecrypt(MasterKey, f[encrypted_path])
    THEN [ok |-> TRUE,
          fs |-> [f EXCEPT ![output_path] = Decrypt(MasterKey, f[encrypted_path])]]
    ELSE [ok |-> FALSE, fs |-> f]

\* encrypted_path.replace('.encrypted', ''), the output_path when none is given
DefaultOutput(encrypted_path) ==
    CASE encrypted_path = "secure_config.encrypted.encrypted" -> "secure_config"
      [] encrypted_path = "secure_config.encrypted" -> "secure_config"

\* a caller runs encrypt_file(file_path)
CallEncryptFile(file_path) ==
    LET e == EncryptFile(fs, file_path)
    IN  /\ io = <<>>
        /\ fs' = e.fs
        /\ fw_result' = [op |-> "encrypt_file", path |-> file_path, ok |-> e.ok,
                          content |-> fs[file_path]]
        /\ UNCHANGED <<os_rules, system, faults, port_result, io, baseline>>

\* a caller runs decrypt_file(encrypted_path, output_path); the result
\* remembers the call made just before
CallDecryptFile(encrypted_path, output_path) ==
    LET d == DecryptFile(fs, encrypted_path, output_path)
    IN  /\ io = <<>>
        /\ fs' = d.fs
        /\ fw_result' = [op |-> "decrypt_file", path |-> encrypted_path,
                          out |-> output_path, ok |-> d.ok,
                          after |-> IF fw_result.op = "encrypt_file"
                                    THEN fw_result ELSE [op |-> "other"]]
        /\ UNCHANGED <<os_rules, system, faults, port_result, io, baseline>>

\* os.rename(src, dst) guarded by os.path.exists(src)
RenameIfExists(f, src, dst) ==
    IF ~Exists(f, src) THEN f
    ELSE [f EXCEPT ![dst] = f[src], ![src] = Absent]

\* os.remove(path) guarded by os.path.exists(path)
RemoveIfExists(f, path) == [f EXCEPT ![path] = Absent]

\* a text file is kept as the list of its lines, text.split('\n'):
\* the empty text is one empty line
JoinLines(list) == IF list = <<>> THEN <<"">> ELSE list

RECURSIVE DropLeadingBlank(_)
DropLeadingBlank(lines) ==
    IF lines # <<>> /\ Head(lines) = "" THEN DropLeadingBlank(Tail(lines))
    ELSE lines

RECURSIVE DropTrailingBlank(_)
DropTrailingBlank(lines) ==
    IF lines # <<>> /\ lines[Len(lines)] = ""
    THEN DropTrailingBlank(SubSeq(lines, 1, Len(lines) - 1))
    ELSE lines

\* f.read().strip().split('\n')
StripSplit(lines) == JoinLines(DropTrailingBlank(DropLeadingBlank(lines)))

VerifyFileIntegrityTrusting(f, file_path) ==
    [ok |-> Exists(f, file_path),
     fs |-> IF Exists(f, file_path)
            THEN [f EXCEPT ![HashPath(file_path)] = Text(Sha256(f[file_path]))]
            ELSE f]

\* verify_file_integrity(file_path): the value returned and the files
\* afterwards (the hash file is written when there is none)
VerifyFileIntegrity(f, file_path) ==
    IF ~Exists(f, file_path)
    THEN [ok |-> FALSE, fs |-> f]
    ELSE LET file_hash == Sha256(f[file_path])
             hash_file == HashPath(file_path)
         IN  IF Exists(f, hash_file)
             THEN [ok |-> file_hash = f[hash_file].data, fs |-> f]
             ELSE [ok |-> TRUE, fs |-> [f EXCEPT ![hash_file] = Text(file_hash)]]

----------------------------------------------------------------------------
(* FirewallProtection                                                      *)

rules_file == "data/firewall_rules.json.encrypted"
temp_rules == "temp_firewall_rules.json"

\* json.dump(firewall_rules, f, indent=2): the rules document
firewall_rules == <<"firewall_rules 1.0">>

\* protect_firewall_rules
ProtectFirewallRules(f) ==
    EncryptFile([f EXCEPT !["data/firewall_rules.json"] = Text(firewall_rules)],
                "data/firewall_rules.json")

\* FirewallProtection.verify_firewall_integrity
VerifyRulesIntegrity(f) ==
    IF ~Exists(f, rules_file)
    THEN [ok |-> FALSE, fs |-> f]
    ELSE LET d == DecryptFile(f, rules_file, temp_rules)
         IN  IF d.ok
             THEN LET v == VerifyFileIntegrity(d.fs, temp_rules)
                  IN  [ok |-> v.ok, fs |-> RemoveIfExists(v.fs, temp_rules)]
             ELSE [ok |-> FALSE, fs |-> f]

----------------------------------------------------------------------------
(* PortBlocker                                                             *)

\* list(self.always_block)
always_block == <<80, 21, 23, 25, 53, 110, 143, 161, 389, 445>>

always_allow ==
    {443, 22, 993, 995, 3389, 5900, 587, 465, 636, 989, 990,
     5173, 8766, 3000, 5000, 8080, 8000}

blocked_ports_file == "data/blocked_ports.txt.encrypted"
temp_ports == "temp_blocked_ports.txt"

\* the lines of the ports file that int() reads back: those made of digits
IsDigitLine(line) == line >= 0
ParsePorts(lines) == SelectSeq(lines, IsDigitLine)

\* list(self.dangerous_ports)
dangerous_ports ==
    <<80, 21, 23, 25, 53, 110, 143, 161, 389, 445, 993, 995, 443, 22, 3389,
      5900, 8080, 8000, 3000, 5000>>

GetBlockedPortsDangerous(f) ==
    LET d == DecryptFile(f, blocked_ports_file, temp_ports)
    IN  IF d.ok
        THEN [ports |-> ParsePorts(d.fs[temp_ports].data),
              fs |-> RemoveIfExists(d.fs, temp_ports)]
        ELSE [ports |-> dangerous_ports, fs |-> f]

\* get_blocked_ports: the list returned and the files afterwards
GetBlockedPorts(f) ==
    LET d == DecryptFile(f, blocked_ports_file, temp_ports)
    IN  IF d.ok
        THEN [ports |-> ParsePorts(d.fs[temp_ports].data),
              fs |-> RemoveIfExists(d.fs, temp_ports)]
        ELSE [ports |-> always_block, fs |-> f]

\* _save_blocked_ports(ports)
SaveBlockedPorts(f, ports) ==
    LET written == [f EXCEPT ![temp_ports] = Text(ports)]
        e == EncryptFile(written, temp_ports)
        moved == RenameIfExists(e.fs, EncPath(temp_ports), blocked_ports_file)
    IN  RemoveIfExists(moved, temp_ports)

\* _apply_port_block(port): sudo iptables -A INPUT ... --dport port -j DROP,
\* or the pfctl table entry; outcome "ok", "CalledProcessError" (logged) or
\* "OSError" (not caught there)
ApplyPortBlock(rules, port, outcome) ==
    IF system \in {"linux", "darwin"} /\ outcome = "ok"
    THEN Append(rules, port) ELSE rules

\* _apply_port_unblock(port)
ApplyPortUnblock(rules, port, outcome) ==
    IF system \in {"linux", "darwin"} /\ outcome = "ok"
    THEN RemoveFirst(rules, port) ELSE rules

\* the subprocess call raises something other than CalledProcessError
Escapes(outcome) == system \in {"linux", "darwin"} /\ outcome = "OSError"

IsAlwaysAllowedNever(port) == FALSE

\* port in self.always_allow
IsAlwaysAllowed(port) == port \in always_allow

\* block_port(port)
BlockPort(port, outcome) ==
    IF IsAlwaysAllowed(port)
    THEN /\ port_result' = [op |-> "block_port", port |-> port, ok |-> FALSE]
         /\ UNCHANGED <<fs, os_rules, system>>
    ELSE LET got == GetBlockedPorts(fs)
             saved == IF port \notin Range(got.ports)
                      THEN SaveBlockedPorts(got.fs, Append(got.ports, port))
                      ELSE got.fs
         IN  /\ fs' = saved
             /\ os_rules' = ApplyPortBlock(os_rules, port, outcome)
             /\ port_result' = [op |-> "block_port", port |-> port,
                                ok |-> ~Escapes(outcome)]
             /\ UNCHANGED system

UnblockPortAny(port, outcome) ==
    LET got == GetBlockedPorts(fs)
        saved == IF port \in Range(got.ports)
                 THEN SaveBlockedPorts(got.fs, RemoveFirst(got.ports, port))
                 ELSE got.fs
    IN  /\ fs' = saved
        /\ os_rules' = ApplyPortUnblock(os_rules, port, outcome)
        /\ port_result' = [op |-> "unblock_port", port |-> port,
                           ok |-> ~Escapes(outcome)]
        /\ UNCHANGED system

\* unblock_port(port)
UnblockPort(port, outcome) ==
    IF port \in Range(always_block)
    THEN /\ port_result' = [op |-> "unblock_port", port |-> port, ok |-> FALSE]
         /\ UNCHANGED <<fs, os_rules, system>>
    ELSE LET got == GetBlockedPorts(fs)
             saved == IF port \in Range(got.ports)
                      THEN SaveBlockedPorts(got.fs, RemoveFirst(got.ports, port))
                      ELSE got.fs
         IN  /\ fs' = saved
             /\ os_rules' = ApplyPortUnblock(os_rules, port, outcome)
             /\ port_result' = [op |-> "unblock_port", port |-> port,
                                ok |-> ~Escapes(outcome)]
             /\ UNCHANGED system

\* is_port_blocked(port)
IsPortBlocked(f, port) == port \in Range(GetBlockedPorts(f).ports)

\* is_port_allowed(port)
IsPortAllowed(port) == port \in always_allow

\* a caller runs is_port_blocked(port)
CallIsPortBlocked(port) ==
    /\ fs' = GetBlockedPorts(fs).fs
    /\ port_result' = [op |-> "is_port_blocked", port |-> port,
                       ok |-> IsPortBlocked(fs, port)]
    /\ UNCHANGED <<os_rules, system>>

\* the unencrypted_ports of emergency_block_all_unencrypted
unencrypted_ports ==
    <<80, 21, 23, 25, 53, 110, 143, 161, 389, 445,
      8080, 8000, 3000, 5000, 9000, 9090, 8888>>

\* block_port(port) on the files f and the operating-system rules: what it
\* leaves and returns
BlockPortOn(f, rules, port, outcome) ==
    IF IsAlwaysAllowed(port)
    THEN [fs |-> f, rules |-> rules, ok |-> FALSE]
    ELSE LET got == GetBlockedPorts(f)
             saved == IF port \notin Range(got.ports)
                      THEN SaveBlockedPorts(got.fs, Append(got.ports, port))
                      ELSE got.fs
         IN  [fs |-> saved, rules |-> ApplyPortBlock(rules, port, outcome),
              ok |-> ~Escapes(outcome)]

\* the test of the emergency loop: is_port_allowed(port)
EmergencySkips(port) == IsPortAllowed(port)

\* for port in unencrypted_ports: if not self.is_port_allowed(port):
\* self.block_port(port, ...); outcomes[port] is what the firewall command
\* for that port does.  The loop goes on whatever block_port returns.
RECURSIVE EmergencyLoopStopsOnFailure(_, _, _)
EmergencyLoopStopsOnFailure(st, ports, outcomes) ==
    IF ports = <<>> THEN st
    ELSE LET port == Head(ports)
             b == IF EmergencySkips(port)
                  THEN [fs |-> st.fs, rules |-> st.rules, ok |-> TRUE]
                  ELSE BlockPortOn(st.fs, st.rules, port, outcomes[port])
         IN  IF b.ok
             THEN EmergencyLoopStopsOnFailure(b, Tail(ports), outcomes)
             ELSE b

RECURSIVE EmergencyLoop(_, _, _)
EmergencyLoop(st, ports, outcomes) ==
    IF ports = <<>> THEN st
    ELSE LET port == Head(ports)
             b == IF EmergencySkips(port)
                  THEN [fs |-> st.fs, rules |-> st.rules, ok |-> TRUE]
                  ELSE BlockPortOn(st.fs, st.rules, port, outcomes[port])
         IN  IF b.ok
             THEN EmergencyLoop(b, Tail(ports), outcomes)
             ELSE EmergencyLoop(b, Tail(ports), outcomes)

\* emergency_block_all_unencrypted(): the loop is the whole try block, and
\* nothing in it raises, so the function returns True
EmergencyBlockAllUnencrypted(outcomes) ==
    LET e == EmergencyLoop([fs |-> fs, rules |-> os_rules, ok |-> TRUE],
                           unencrypted_ports, outcomes)
    IN  /\ fs' = e.fs
        /\ os_rules' = e.rules
        /\ port_result' = [op |-> "emergency_block_all_unencrypted",
                           port |-> 0, ok |-> TRUE]
        /\ UNCHANGED system

----------------------------------------------------------------------------
(* SecureFirewallManager                                                   *)

blocked_ips_file == "data/blocked_ips.txt.encrypted"
whitelist_file == "data/whitelist.txt.encrypted"
temp_ips == "temp_blocked_ips.txt"
temp_whitelist == "temp_whitelist.txt"

\* _create_initial_blocked_ips
initial_blocked_ips == <<"192.168.1.100", "10.0.0.50", "172.16.0.25">>

\* _create_whitelist
whitelist_ips == <<"127.0.0.1", "192.168.1.1", "10.0.0.1">>

\* add_blocked_ip(ip_address)
AddBlockedIp(ip_address) ==
    LET d == DecryptFile(fs, blocked_ips_file, temp_ips)
    IN  IF ~d.ok
        THEN /\ fw_result' = [op |-> "add_blocked_ip", ip |-> ip_address,
                              ok |-> FALSE]
             /\ UNCHANGED fs
        ELSE LET current_ips == StripSplit(d.fs[temp_ips].data)
                 written == [d.fs EXCEPT ![temp_ips] =
                                Text(JoinLines(Append(current_ips, ip_address)))]
                 e == EncryptFile(written, temp_ips)
                 moved == RenameIfExists(e.fs, EncPath(temp_ips), blocked_ips_file)
             IN  /\ fs' = RemoveIfExists(
                              IF ip_address \notin Range(current_ips)
                              THEN moved ELSE d.fs, temp_ips)
                 /\ fw_result' = [op |-> "add_blocked_ip", ip |-> ip_address,
                                  ok |-> TRUE]

\* remove_blocked_ip(ip_address)
RemoveBlockedIp(ip_address) ==
    LET d == DecryptFile(fs, blocked_ips_file, temp_ips)
    IN  IF ~d.ok
        THEN /\ fw_result' = [op |-> "remove_blocked_ip", ip |-> ip_address,
                              ok |-> FALSE]
             /\ UNCHANGED fs
        ELSE LET current_ips == StripSplit(d.fs[temp_ips].data)
                 written == [d.fs EXCEPT ![temp_ips] =
                                Text(JoinLines(RemoveFirst(current_ips, ip_address)))]
                 e == EncryptFile(written, temp_ips)
                 moved == RenameIfExists(e.fs, EncPath(temp_ips), blocked_ips_file)
             IN  /\ fs' = RemoveIfExists(
                              IF ip_address \in Range(current_ips)
                              THEN moved ELSE d.fs, temp_ips)
                 /\ fw_result' = [op |-> "remove_blocked_ip", ip |-> ip_address,
                                  ok |-> TRUE]

NotBlank(ip) == ip # ""

\* get_blocked_ips: the list returned (the temporary file is removed again)
GetBlockedIps(f) ==
    LET d == DecryptFile(f, blocked_ips_file, temp_ips)
    IN  IF d.ok THEN SelectSeq(StripSplit(d.fs[temp_ips].data), NotBlank) ELSE <<>>

\* is_ip_whitelisted(ip_address)
IsIpWhitelisted(f, ip_address) ==
    LET d == DecryptFile(f, whitelist_file, temp_whitelist)
    IN  d.ok /\ ip_address \in Range(StripSplit(d.fs[temp_whitelist].data))

\* is_ip_blocked(ip_address)
IsIpBlocked(f, ip_address) == ip_address \in Range(GetBlockedIps(f))

\* a caller runs is_ip_blocked(ip_address)
CallIsIpBlocked(ip_address) ==
    /\ fw_result' = [op |-> "is_ip_blocked", ip |-> ip_address,
                     ok |-> IsIpBlocked(fs, ip_address)]
    /\ UNCHANGED fs

\* a caller runs is_ip_whitelisted(ip_address)
CallIsIpWhitelisted(ip_address) ==
    /\ fw_result' = [op |-> "is_ip_whitelisted", ip |-> ip_address,
                     ok |-> IsIpWhitelisted(fs, ip_address)]
    /\ UNCHANGED fs

Paths ==
    {blocked_ports_file, temp_ports, EncPath(temp_ports), BackupPath(temp_ports),
     blocked_ips_file, whitelist_file, temp_ips, EncPath(temp_ips),
     BackupPath(temp_ips), temp_whitelist,
     "data/blocked_ips.txt", "data/blocked_ips.txt.backup",
     "data/whitelist.txt", "data/whitelist.txt.backup",
     "data/firewall_rules.json", "data/firewall_rules.json.backup",
     rules_file, temp_rules,
     "secure_config", "secure_config.encrypted",
     "secure_config.encrypted.encrypted", "secure_config.encrypted.backup"}
    \cup HashPaths

\* _create_initial_blocked_ips
CreateInitialBlockedIps(f) ==
    EncryptFile([f EXCEPT !["data/blocked_ips.txt"] =
                    Text(JoinLines(initial_blocked_ips))],
                "data/blocked_ips.txt").fs

\* _create_whitelist
CreateWhitelist(f) ==
    EncryptFile([f EXCEPT !["data/whitelist.txt"] =
                    Text(JoinLines(whitelist_ips))],
                "data/whitelist.txt").fs

\* _initialize_secure_firewall, which __init__ runs at every start
InitializeSecureFirewall(f) ==
    CreateWhitelist(CreateInitialBlockedIps(ProtectFirewallRules(f).fs))

\* SecureFirewallManager.verify_firewall_integrity: the three checks are all
\* made, the result is their conjunction
VerifyFirewallIntegrity(f) ==
    LET r == VerifyRulesIntegrity(f)
        b == VerifyFileIntegrity(r.fs, blocked_ips_file)
        w == VerifyFileIntegrity(b.fs, whitelist_file)
    IN  [ok |-> r.ok /\ b.ok /\ w.ok, fs |-> w.fs]

\* History: the hash file of path is about to be written for content f[path]
NoteBaseline(bl, f, path) ==
    IF Exists(f, path) /\ ~Exists(f, HashPath(path))
    THEN [bl EXCEPT ![path] = f[path]] ELSE bl

\* a caller runs verify_file_integrity(file_path)
CallVerifyFileIntegrity(file_path) ==
    LET v == VerifyFileIntegrity(fs, file_path)
    IN  /\ io = <<>>
        /\ fs' = v.fs
        /\ fw_result' = [op |-> "verify_file_integrity", path |-> file_path,
                          ok |-> v.ok]
        /\ baseline' = NoteBaseline(baseline, fs, file_path)
        /\ UNCHANGED <<os_rules, system, faults, port_result, io>>

\* a caller runs SecureFirewallManager.verify_firewall_integrity()
CallVerifyFirewallIntegrity ==
    LET v == VerifyFirewallIntegrity(fs)
        d == DecryptFile(fs, rules_file, temp_rules)
    IN  /\ io = <<>>
        /\ fs' = v.fs
        /\ fw_result' = [op |-> "verify_firewall_integrity", path |-> "",
                          ok |-> v.ok]
        /\ baseline' = NoteBaseline(
                           NoteBaseline(
                               NoteBaseline(baseline, d.fs, temp_rules),
                               fs, blocked_ips_file),
                           fs, whitelist_file)
        /\ UNCHANGED <<os_rules, system, faults, port_result, io>>

\* the server is started again: __init__ runs _initialize_secure_firewall
Restart ==
    /\ io = <<>>
    /\ fs' = InitializeSecureFirewall(fs)
    /\ fw_result' = [op |-> "__init__", path |-> "", ok |-> TRUE]
    /\ UNCHANGED <<os_rules, system, faults, port_result, io, baseline>>

\* somebody outside the program flips a byte of an encrypted file
FlipByte(path) ==
    /\ fs[path].kind = "fernet"
    /\ fs' = [fs EXCEPT ![path] = [@ EXCEPT !.kind = "damaged"]]
    /\ fw_result' = [op |-> "modified", path |-> path, ok |-> TRUE]
    /\ UNCHANGED <<os_rules, system, faults, port_result, io, baseline>>

\* somebody outside the program puts back the content the file had when its
\* hash file was written
PutBack(path) ==
    /\ Exists(fs, HashPath(path))
    /\ fs[path] # baseline[path]
    /\ fs' = [fs EXCEPT ![path] = baseline[path]]
    /\ fw_result' = [op |-> "modified", path |-> path, ok |-> TRUE]
    /\ UNCHANGED <<os_rules, system, faults, port_result, io, baseline>>

\* the files after SecureFirewallManager.__init__ in an empty data directory:
\* the rules, the block-list and the whitelist are written and encrypted
FilesAsConstructed == InitializeSecureFirewall([p \in Paths |-> Absent])

\* PortBlocker and SecureFirewallManager as constructed, on Linux
StoreInit ==
    /\ fs = FilesAsConstructed
    /\ os_rules = <<>>
    /\ system = "linux"
    /\ port_result = [op |-> "none"]
    /\ fw_result = [op |-> "none"]
    /\ io = <<>>
    /\ baseline = [p \in VerifiedPaths |-> Absent]
    /\ faults = [calls |-> 0, failed |-> 0]

----------------------------------------------------------------------------
(* The store calls step by step: every access to a file is a step of its   *)
(* own, and any of them may raise an OSError                                *)

\* a file just opened for writing, and one whose write broke off
Empty == Text(<<"">>)
Partial(content) == [content EXCEPT !.kind = "partial"]

\* one statement of a store function
I(do, path) == [do |-> do, fn |-> "", path |-> path, dst |-> "", n |-> 0]
Move(src, dst) ==
    [do |-> "rename_if_exists", fn |-> "", path |-> src, dst |-> dst, n |-> 0]
Call(fn, path, out) == [do |-> "call", fn |-> fn, path |-> path, dst |-> out, n |-> 0]
SkipIf(test, n) == [do |-> test, fn |-> "", path |-> "", dst |-> "", n |-> n]

EncryptFileCodeBackupLast(file_path) ==
    << I("return False unless exists", file_path),
       I("read", file_path),
       I("encrypt", ""),
       I("open", EncPath(file_path)),
       I("write token", EncPath(file_path)),
       I("remove", file_path),
       I("open", BackupPath(file_path)),
       I("write data", BackupPath(file_path)),
       I("return True", "") >>

\* encrypt_file(file_path)
EncryptFileCode(file_path) ==
    << I("return False unless exists", file_path),
       I("read", file_path),
       I("encrypt", ""),
       I("open", EncPath(file_path)),
       I("write token", EncPath(file_path)),
       I("open", BackupPath(file_path)),
       I("write data", BackupPath(file_path)),
       I("remove", file_path),
       I("return True", "") >>

DecryptFileCodeUnchecked(encrypted_path, output_path) ==
    << I("read", encrypted_path),
       I("open", output_path),
       I("write data", output_path),
       I("return True", "") >>

\* decrypt_file(encrypted_path, output_path)
DecryptFileCode(encrypted_path, output_path) ==
    << I("return False unless exists", encrypted_path),
       I("read", encrypted_path),
       I("decrypt", ""),
       I("open", output_path),
       I("write data", output_path),
       I("return True", "") >>

\* verify_file_integrity(file_path)
VerifyFileIntegrityCode(file_path) ==
    << I("return False unless exists", file_path),
       I("read", file_path),
       I("sha256", ""),
       I("return equal if exists", HashPath(file_path)),
       I("open", HashPath(file_path)),
       I("write token", HashPath(file_path)),
       I("return True", "") >>

\* load_secure_config(config_path)
LoadSecureConfigCode(config_path) ==
    << I("return empty unless exists", config_path),
       I("read", config_path),
       I("decrypt", ""),
       I("json.loads", ""),
       I("return data", "") >>

\* add_blocked_ip(ip_address)
AddBlockedIpCode ==
    << Call("decrypt_file", blocked_ips_file, temp_ips),
       I("return False unless ret", ""),
       I("read", temp_ips),
       SkipIf("skip if listed", 5),
       I("append", ""),
       I("open", temp_ips),
       I("write data", temp_ips),
       Call("encrypt_file", temp_ips, ""),
       Move(EncPath(temp_ips), blocked_ips_file),
       I("remove_if_exists", temp_ips),
       I("return True", "") >>

\* remove_blocked_ip(ip_address)
RemoveBlockedIpCode ==
    << Call("decrypt_file", blocked_ips_file, temp_ips),
       I("return False unless ret", ""),
       I("read", temp_ips),
       SkipIf("skip unless listed", 5),
       I("list.remove", ""),
       I("open", temp_ips),
       I("write data", temp_ips),
       Call("encrypt_file", temp_ips, ""),
       Move(EncPath(temp_ips), blocked_ips_file),
       I("remove_if_exists", temp_ips),
       I("return True", "") >>

\* get_blocked_ips()
GetBlockedIpsCode ==
    << Call("decrypt_file", blocked_ips_file, temp_ips),
       I("return empty unless ret", ""),
       I("read", temp_ips),
       I("remove_if_exists", temp_ips),
       I("return data", "") >>

\* protect_firewall_rules()
ProtectFirewallRulesCode ==
    << I("firewall_rules", ""),
       I("open", "data/firewall_rules.json"),
       I("write data", "data/firewall_rules.json"),
       Call("encrypt_file", "data/firewall_rules.json", ""),
       I("return ret", "") >>

\* _create_initial_blocked_ips()
CreateInitialBlockedIpsCode ==
    << I("blocked_ips", ""),
       I("open", "data/blocked_ips.txt"),
       I("write data", "data/blocked_ips.txt"),
       Call("encrypt_file", "data/blocked_ips.txt", ""),
       I("return True", "") >>

\* _create_whitelist()
CreateWhitelistCode ==
    << I("whitelist_ips", ""),
       I("open", "data/whitelist.txt"),
       I("write data", "data/whitelist.txt"),
       Call("encrypt_file", "data/whitelist.txt", ""),
       I("return True", "") >>

\* _initialize_secure_firewall()
InitializeSecureFirewallCode ==
    << Call("protect_firewall_rules", "", ""),
       Call("_create_initial_blocked_ips", "", ""),
       Call("_create_whitelist", "", ""),
       I("return True", "") >>

\* _save_blocked_ports(ports)
SaveBlockedPortsCode ==
    << I("ports", ""),
       I("open", temp_ports),
       I("write data", temp_ports),
       Call("encrypt_file", temp_ports, ""),
       Move(EncPath(temp_ports), blocked_ports_file),
       I("remove_if_exists", temp_ports),
       I("return True", "") >>

\* the statements of function fn called with (path, out)
CodeOf(fn, path, out) ==
    CASE fn = "encrypt_file" -> EncryptFileCode(path)
      [] fn = "decrypt_file" -> DecryptFileCode(path, out)
      [] fn = "verify_file_integrity" -> VerifyFileIntegrityCode(path)
      [] fn = "load_secure_config" -> LoadSecureConfigCode(path)
      [] fn = "add_blocked_ip" -> AddBlockedIpCode
      [] fn = "remove_blocked_ip" -> RemoveBlockedIpCode
      [] fn = "get_blocked_ips" -> GetBlockedIpsCode
      [] fn = "protect_firewall_rules" -> ProtectFirewallRulesCode
      [] fn = "_create_initial_blocked_ips" -> CreateInitialBlockedIpsCode
      [] fn = "_create_whitelist" -> CreateWhitelistCode
      [] fn = "_initialize_secure_firewall" -> InitializeSecureFirewallCode
      [] fn = "_save_blocked_ports" -> SaveBlockedPortsCode

\* a call in progress: the statements still to run, the argument (the IP
\* address or the ports), the bytes read or made (data), the token or digest
\* made from them (token), and what the last call made from here returned
\* (ret) and why (cause).  History: the file the call was made for (input)
\* and what the block-list file held when the call started (before).
NewFrame(fn, path, out, arg) ==
    [fn |-> fn, code |-> CodeOf(fn, path, out), arg |-> arg, input |-> path,
     data |-> Absent, token |-> Absent, ret |-> TRUE, cause |-> "none",
     before |-> Absent]

\* the statements that touch a file and so may raise an OSError
Faultable(f, i) ==
    \/ i.do \in {"read", "open", "write data", "write token", "remove"}
    \/ i.do \in {"remove_if_exists", "rename_if_exists", "return equal if exists"}
       /\ Exists(f, i.path)

\* One statement of the innermost call fr is run on the files f; with
\* "fault" the file access in it raises.  The outcome: the files, the frame,
\* and whether the call goes on, calls, or returns (and what).
Exec(f, fr, fault) ==
    LET i == Head(fr.code)
        rest == [fr EXCEPT !.code = Tail(fr.code)]
        ip == fr.arg[1]
        current_ips == StripSplit(fr.data.data)
        Go(f2, fr2) == [act |-> "go", fs |-> f2, fr |-> fr2, ok |-> TRUE,
                        list |-> <<>>, cause |-> "none"]
        Ret(f2, ok, list, cause) ==
            [act |-> "ret", fs |-> f2, fr |-> rest, ok |-> ok, list |-> list,
             cause |-> cause]
        \* except Exception: return False / [] / {}
        Raise(f2, cause) == Ret(f2, FALSE, <<>>, cause)
    IN  CASE i.do \in {"return False unless exists", "return empty unless exists"} ->
               IF Exists(f, i.path) THEN Go(f, rest)
               ELSE Ret(f, FALSE, <<>>, "missing")
          [] i.do = "read" ->
               IF fault \/ ~Exists(f, i.path)
               THEN Raise(f, IF i.path = fr.input THEN "unreadable" ELSE "io")
               ELSE Go(f, [rest EXCEPT !.data = f[i.path]])
          [] i.do = "encrypt" ->
               Go(f, [rest EXCEPT !.token =
                          Encrypt(MasterKey, fr.data, FreshIv(f, fr.data))])
          [] i.do = "decrypt" ->
               IF CanDecrypt(MasterKey, fr.data)
               THEN Go(f, [rest EXCEPT !.data = Decrypt(MasterKey, fr.data)])
               ELSE Raise(f, "undecryptable")
          [] i.do = "sha256" ->
               Go(f, [rest EXCEPT !.token = Text(Sha256(fr.data))])
          [] i.do = "return equal if exists" ->
               IF ~Exists(f, i.path) THEN Go(f, rest)
               ELSE IF fault THEN Raise(f, "io")
               ELSE Ret(f, fr.token.data = f[i.path].data, <<>>, "none")
          [] i.do = "open" ->
               IF fault THEN Raise(f, "io")
               ELSE Go([f EXCEPT ![i.path] = Empty], rest)
          [] i.do = "write data" ->
               IF fault THEN Raise([f EXCEPT ![i.path] = Partial(fr.data)], "io")
               ELSE Go([f EXCEPT ![i.path] = fr.data], rest)
          [] i.do = "write token" ->
               IF fault THEN Raise([f EXCEPT ![i.path] = Partial(fr.token)], "io")
               ELSE Go([f EXCEPT ![i.path] = fr.token], rest)
          [] i.do \in {"remove", "remove_if_exists"} ->
               IF i.do = "remove_if_exists" /\ ~Exists(f, i.path) THEN Go(f, rest)
               ELSE IF fault \/ ~Exists(f, i.path) THEN Raise(f, "io")
               ELSE Go([f EXCEPT ![i.path] = Absent], rest)
          [] i.do = "rename_if_exists" ->
               IF ~Exists(f, i.path) THEN Go(f, rest)
               ELSE IF fault \/ (system = "windows" /\ Exists(f, i.dst))
               THEN Raise(f, "io")
               ELSE Go([f EXCEPT ![i.dst] = f[i.path], ![i.path] = Absent], rest)
          [] i.do \in {"return False unless ret", "return empty unless ret"} ->
               IF fr.ret THEN Go(f, rest) ELSE Ret(f, FALSE, <<>>, fr.cause)
          [] i.do = "return ret" -> Ret(f, fr.ret, <<>>, fr.cause)
          [] i.do = "return True" -> Ret(f, TRUE, <<>>, "none")
          [] i.do = "return data" ->
               Ret(f, TRUE,
                   IF fr.fn = "get_blocked_ips"
                   THEN SelectSeq(current_ips, NotBlank) ELSE fr.data.data,
                   "none")
          [] i.do = "json.loads" ->
               IF fr.data.kind = "text" /\ fr.data.data = firewall_rules
               THEN Go(f, rest) ELSE Raise(f, "not json")
          [] i.do = "skip if listed" ->
               IF ip \in Range(current_ips)
               THEN Go(f, [rest EXCEPT !.code = SubSeq(@, i.n + 1, Len(@))])
               ELSE Go(f, rest)
          [] i.do = "skip unless listed" ->
               IF ip \notin Range(current_ips)
               THEN Go(f, [rest EXCEPT !.code = SubSeq(@, i.n + 1, Len(@))])
               ELSE Go(f, rest)
          [] i.do = "append" ->
               Go(f, [rest EXCEPT !.data = Text(JoinLines(Append(current_ips, ip)))])
          [] i.do = "list.remove" ->
               Go(f, [rest EXCEPT !.data =
                          Text(JoinLines(RemoveFirst(current_ips, ip)))])
          [] i.do = "firewall_rules" ->
               Go(f, [rest EXCEPT !.data = Text(firewall_rules)])
          [] i.do = "blocked_ips" ->
               Go(f, [rest EXCEPT !.data = Text(JoinLines(initial_blocked_ips))])
          [] i.do = "whitelist_ips" ->
               Go(f, [rest EXCEPT !.data = Text(JoinLines(whitelist_ips))])
          [] i.do = "ports" -> Go(f, [rest EXCEPT !.data = Text(fr.arg)])
          [] i.do = "call" ->
               [act |-> "call", fs |-> f, fr |-> rest, ok |-> TRUE,
                list |-> <<>>, cause |-> "none"]

\* a caller outside the store runs fn(...)
IoCall(fn, path, out, arg) ==
    /\ io = <<>>
    /\ io' = <<[NewFrame(fn, path, out, arg) EXCEPT !.before = fs[blocked_ips_file]]>>
    /\ faults' = [faults EXCEPT !.calls = @ + 1]
    /\ UNCHANGED <<fs, os_rules, system, port_result, fw_result, baseline>>

\* the innermost call in progress runs its next statement
IoStep(fault) ==
    /\ io # <<>>
    /\ fault => Faultable(fs, Head(io[Len(io)].code))
    /\ LET fr == io[Len(io)]
           i == Head(fr.code)
           x == Exec(fs, fr, fault)
           below == SubSeq(io, 1, Len(io) - 1)
       IN  /\ fs' = x.fs
           /\ io' = CASE x.act = "go" -> Append(below, x.fr)
                      [] x.act = "call" ->
                           below \o <<x.fr, NewFrame(i.fn, i.path, i.dst, fr.arg)>>
                      [] x.act = "ret" ->
                           IF below = <<>> THEN <<>>
                           ELSE [below EXCEPT ![Len(below)] =
                                    [@ EXCEPT !.ret = x.ok, !.cause = x.cause]]
           /\ fw_result' =
                  IF x.act = "ret" /\ below = <<>>
                  THEN [op |-> fr.fn, path |-> fr.input, arg |-> fr.arg,
                        ok |-> x.ok, list |-> x.list, cause |-> x.cause,
                        before |-> fr.before]
                  ELSE fw_result
           /\ baseline' =
                  IF i.do = "write token" /\ fr.fn = "verify_file_integrity" /\ ~fault
                  THEN [baseline EXCEPT ![fr.input] = fr.data]
                  ELSE baseline
    /\ faults' = IF fault THEN [faults EXCEPT !.failed = @ + 1] ELSE faults
    /\ UNCHANGED <<os_rules, system, port_result>>

\* the process is killed in the middle of a call
Kill ==
    /\ io # <<>>
    /\ io' = <<>>
    /\ fw_result' = [op |-> "killed", path |-> "", ok |-> FALSE]
    /\ faults' = [faults EXCEPT !.failed = @ + 1]
    /\ UNCHANGED <<fs, os_rules, system, port_result, baseline>>

----------------------------------------------------------------------------
(* WebSocketManager and websocket_handler                                  *)

WsIds == {"c1", "c2"}
NoWs == "none"

\* the awaits of websocket_handler at which a registered connection waits
Live == {"welcome", "initial_state", "receive", "reply"}

\* WebSocketManager.register(ws): self.connections.add(ws)
Register(conns, ws) == conns \cup {ws}

\* WebSocketManager.unregister(ws): self.connections.discard(ws)
Unregister(conns, ws) == conns \ {ws}

FinallyKeeps(conns, ws) == conns

\* the finally clause of websocket_handler
Finally(conns, ws) == Unregister(conns, ws)

\* a client connects: websocket_handler starts and awaits ws.prepare(request)
WsConnect(ws) ==
    /\ handler[ws] = "none"
    /\ handler' = [handler EXCEPT ![ws] = "prepare"]
    /\ UNCHANGED <<connections, broadcasting, ws_hist>>

\* ws.prepare returns: the connection is registered and the welcome message
\* is sent; or it raises, before the try block
WsPrepared(ws, ok) ==
    /\ handler[ws] = "prepare"
    /\ IF ok
       THEN /\ connections' = Register(connections, ws)
            /\ handler' = [handler EXCEPT ![ws] = "welcome"]
            /\ ws_hist' = [ws_hist EXCEPT !.registered = @ \cup {ws},
                                          !.sent = @ \cup {ws}]
       ELSE /\ handler' = [handler EXCEPT ![ws] = "ended"]
            /\ UNCHANGED <<connections, ws_hist>>
    /\ UNCHANGED broadcasting

\* a send_str the handler awaits returns or raises: after the welcome the
\* initial state is sent, after that and after every reply the handler
\* waits for the next message; an exception leaves through the finally
\* clause
WsSent(ws, ok) ==
    /\ handler[ws] \in {"welcome", "initial_state", "reply"}
    /\ IF ok
       THEN /\ handler' = [handler EXCEPT ![ws] =
                              IF @ = "welcome" THEN "initial_state" ELSE "receive"]
            /\ UNCHANGED connections
       ELSE /\ handler' = [handler EXCEPT ![ws] = "ended"]
            /\ connections' = Finally(connections, ws)
    /\ UNCHANGED <<broadcasting, ws_hist>>

\* async for msg in ws: a text message (valid JSON or not) is answered, an
\* ERROR message breaks the loop, a close ends it
WsMessage(ws, msg) ==
    /\ handler[ws] = "receive"
    /\ IF msg \in {"text", "invalid json"}
       THEN /\ handler' = [handler EXCEPT ![ws] = "reply"]
            /\ UNCHANGED connections
       ELSE /\ handler' = [handler EXCEPT ![ws] = "ended"]
            /\ connections' = Finally(connections, ws)
    /\ UNCHANGED <<broadcasting, ws_hist>>

\* the handler task is cancelled while it waits
WsCancelled(ws) ==
    /\ handler[ws] \in Live
    /\ handler' = [handler EXCEPT ![ws] = "ended"]
    /\ connections' = Finally(connections, ws)
    /\ UNCHANGED <<broadcasting, ws_hist>>

\* broadcast(message) starts: if self.connections, the set is copied
BroadcastStart ==
    /\ broadcasting.todo = {}
    /\ broadcasting.cur = NoWs
    /\ connections # {}
    /\ broadcasting' = [todo |-> connections, cur |-> NoWs]
    /\ UNCHANGED <<connections, handler, ws_hist>>

\* for ws in connections_copy: await ws.send_str(...)
BroadcastSend(ws) ==
    /\ broadcasting.cur = NoWs
    /\ ws \in broadcasting.todo
    /\ broadcasting' = [todo |-> broadcasting.todo \ {ws}, cur |-> ws]
    /\ ws_hist' = [ws_hist EXCEPT !.sent = @ \cup {ws}]
    /\ UNCHANGED <<connections, handler>>

\* the send of the broadcast returns, or raises and the connection is
\* unregistered; a connection whose handler has ended cannot be written to
BroadcastSent(ok) ==
    LET ws == broadcasting.cur
    IN  /\ ws # NoWs
        /\ ok => handler[ws] # "ended"
        /\ connections' = IF ok THEN connections ELSE Unregister(connections, ws)
        /\ ws_hist' = IF ~ok /\ ws \in connections
                      THEN [ws_hist EXCEPT !.dropped = @ \cup {ws}]
                      ELSE ws_hist
        /\ broadcasting' = [broadcasting EXCEPT !.cur = NoWs]
        /\ UNCHANGED handler

\* ws_manager as constructed, no client connected
WsInit ==
    /\ connections = {}
    /\ handler = [ws \in WsIds |-> "none"]
    /\ broadcasting = [todo |-> {}, cur |-> NoWs]
    /\ ws_hist = [registered |-> {}, sent |-> {}, dropped |-> {}]

----------------------------------------------------------------------------
(* Specifications                                                          *)

Init == DetInit /\ AlertInit /\ StoreInit /\ WsInit

\* Inputs of the detector specification
Payloads ==
    { <<>>,
      <<"hello">>,
      <<"UNION", "SELECT", "from">>,
      <<"select", NL, "from">>,
      <<"un", BadByte, "ion", "from">>,
      <<"Failed password", "1.2.3.4">>,
      <<"1.2.3.4", "5 ports">>,
      <<"javascript:">>,
      <<"%2E%2E%2F">>,
      <<";", "ls">>,
      <<"select", "from", ";", "cat">> }

MaxAnalyses == 2
MaxNow == 3600
DetTicks == {1800}

Analyses == Len(observed["10.0.0.66"]) + Len(observed["127.0.0.1"])

DetAnalyze ==
    /\ \E p \in Payloads : \E s \in SrcIPs :
           Analyses < MaxAnalyses /\ AnalyzePacket(p, s)
    /\ UNCHANGED <<wsVars, alertVars, storeVars>>
DetAddMalicious ==
    (\E ip \in SrcIPs : AddMaliciousIp(ip)) /\ UNCHANGED <<wsVars, alertVars, storeVars>>
DetBlock ==
    (\E ip \in IpTexts : BlockIp(ip)) /\ UNCHANGED <<wsVars, alertVars, storeVars>>
DetUnblock ==
    (\E ip \in SrcIPs : UnblockIp(ip)) /\ UNCHANGED <<wsVars, alertVars, storeVars>>
DetClock ==
    /\ \E d \in DetTicks : now + d <= MaxNow /\ DetTick(d)
    /\ UNCHANGED <<wsVars, alertVars, storeVars>>

DetNext ==
    \/ DetAnalyze
    \/ DetAddMalicious
    \/ DetBlock
    \/ DetUnblock
    \/ DetClock

SpecDetector == Init /\ [][DetNext]_vars

\* The flooding specification: one source sends a burst, another one a few
\* packets, and the clock moves once, by just under or exactly one minute
FloodObs == 102
OtherObs == 1
FloodMaxNow == 60
FloodTicks == {59, 60}

FloodBurst ==
    /\ Len(observed["10.0.0.66"]) < FloodObs
    /\ AnalyzePacket(<<>>, "10.0.0.66")
    /\ UNCHANGED <<wsVars, alertVars, storeVars>>
FloodOther ==
    /\ Len(observed["127.0.0.1"]) < OtherObs
    /\ AnalyzePacket(<<>>, "127.0.0.1")
    /\ UNCHANGED <<wsVars, alertVars, storeVars>>
FloodClock ==
    /\ \E d \in FloodTicks : now + d <= FloodMaxNow /\ DetTick(d)
    /\ UNCHANGED <<wsVars, alertVars, storeVars>>

FloodNext == FloodBurst \/ FloodOther \/ FloodClock

SpecFlood == Init /\ [][FloodNext]_vars

\* The window specification: one source is observed many times while the
\* clock moves by just under, exactly or just over one hour
WindowObs == 23
WindowMaxNow == 3601
WindowTicks == {3599, 3600, 3601}

WinObserve ==
    /\ Len(observed["10.0.0.66"]) < WindowObs
    /\ AnalyzePacket(<<>>, "10.0.0.66")
    /\ UNCHANGED <<wsVars, alertVars, storeVars>>
WinClock ==
    /\ \E d \in WindowTicks : now + d <= WindowMaxNow /\ DetTick(d)
    /\ UNCHANGED <<wsVars, alertVars, storeVars>>

WindowNext == WinObserve \/ WinClock

SpecWindow == Init /\ [][WindowNext]_vars

\* Inputs of the alert specification
CreateInputs ==
    { CreateArgs("threat_detected", "critical", "10.0.0.66", "none"),
      CreateArgs("threat_detected", "critical", NoneVal, "none"),
      CreateArgs("threat_detected", "critical", "", "none"),
      CreateArgs("threat_detected", "high", "10.0.0.66", "none"),
      CreateArgs("system_anomaly", "critical", "10.0.0.66", "none") }

MaxAlerts == 2
MaxClockMs == 2
MaxResolved == 1
Sockets == {"ws1"}

AlertCreate ==
    /\ \E t \in {1} : \E args \in CreateInputs :
           Len(alert_history) + 1 < MaxAlerts /\ CreateAlert(t, args)
    /\ UNCHANGED <<wsVars, detVars, storeVars>>
\* an external call needs room for the alert and for the one a rule may
\* synthesize; a nested call is cut off one alert later
AlertProcess ==
    /\ \E t \in TaskIds : Len(alert_history) <= MaxAlerts /\ ProcessAlert(t)
    /\ UNCHANGED <<wsVars, detVars, storeVars>>
AlertNotifyStart == (\E t \in TaskIds : NotifyStart(t)) /\ UNCHANGED <<wsVars, detVars, storeVars>>
AlertNotifyLoop == (\E t \in TaskIds : NotifyLoop(t)) /\ UNCHANGED <<wsVars, detVars, storeVars>>
AlertSendDone ==
    /\ \E t \in TaskIds : \E ok \in BOOLEAN :
           /\ tasks[t] # <<>>
           /\ Top(t).pc = "send"
           /\ SendDone(t, Top(t).ws, ok)
    /\ UNCHANGED <<wsVars, detVars, storeVars>>
AlertReturn == (\E t \in TaskIds : ReturnAlert(t)) /\ UNCHANGED <<wsVars, detVars, storeVars>>
\* a connection object is registered once, when it connects
AlertSubscribe ==
    /\ \E ws \in Sockets :
           ws \notin Range(subscribers) /\ AddSubscriber(ws)
    /\ UNCHANGED <<wsVars, detVars, storeVars>>
AlertUnsubscribe ==
    (\E ws \in Sockets : RemoveSubscriber(ws)) /\ UNCHANGED <<wsVars, detVars, storeVars>>
AlertIds == 1..MaxClockMs

AlertAcknowledge ==
    (\E id \in AlertIds : AcknowledgeAlert(id)) /\ UNCHANGED <<wsVars, detVars, storeVars>>
AlertResolve ==
    /\ \E id \in AlertIds :
           stats.resolved_alerts < MaxResolved /\ ResolveAlert(id)
    /\ UNCHANGED <<wsVars, detVars, storeVars>>
AlertClock == clock_ms < MaxClockMs /\ AlertTick /\ UNCHANGED <<wsVars, detVars, storeVars>>

AlertNext ==
    \/ AlertCreate
    \/ AlertProcess
    \/ AlertNotifyStart
    \/ AlertNotifyLoop
    \/ AlertSendDone
    \/ AlertReturn
    \/ AlertSubscribe
    \/ AlertUnsubscribe
    \/ AlertAcknowledge
    \/ AlertResolve
    \/ AlertClock

SpecAlert == Init /\ [][AlertNext]_vars

\* The publish specification: one alert is created and published while
\* connections subscribe and unsubscribe, also during the awaited sends
MaxPublishes == 2
PubSockets == {"ws1", "ws2"}
PubInputs == { CreateArgs("threat_detected", "high", "10.0.0.66", "none") }

PubCreate ==
    /\ \E args \in PubInputs :
           Len(alert_history) < MaxPublishes /\ CreateAlert(1, args)
    /\ UNCHANGED <<wsVars, detVars, storeVars>>
PubSubscribe ==
    /\ \E ws \in PubSockets :
           ws \notin Range(subscribers) /\ AddSubscriber(ws)
    /\ UNCHANGED <<wsVars, detVars, storeVars>>
PubUnsubscribe ==
    (\E ws \in PubSockets : RemoveSubscriber(ws)) /\ UNCHANGED <<wsVars, detVars, storeVars>>

PublishNext ==
    \/ PubCreate
    \/ AlertProcess
    \/ AlertNotifyStart
    \/ AlertNotifyLoop
    \/ AlertSendDone
    \/ AlertReturn
    \/ PubSubscribe
    \/ PubUnsubscribe

SpecPublish == Init /\ [][PublishNext]_vars

\* Inputs of the port blocker specification
PortInputs == {443, 8080, 80, 9000, 8888}
Outcomes == {"ok", "CalledProcessError", "OSError"}
MaxOsRules == 2

PortsBlock ==
    /\ \E p \in PortInputs : \E o \in Outcomes :
           Len(os_rules) < MaxOsRules /\ BlockPort(p, o)
    /\ UNCHANGED <<wsVars, detVars, alertVars, fw_result, io, baseline, faults>>
PortsUnblock ==
    /\ \E p \in PortInputs : \E o \in Outcomes : UnblockPort(p, o)
    /\ UNCHANGED <<wsVars, detVars, alertVars, fw_result, io, baseline, faults>>

PortsNext == PortsBlock \/ PortsUnblock

\* the port blocker on any platform
PortsInit ==
    /\ DetInit
    /\ AlertInit
    /\ WsInit
    /\ fs = FilesAsConstructed
    /\ os_rules = <<>>
    /\ system \in {"linux", "darwin", "windows"}
    /\ port_result = [op |-> "none"]
    /\ fw_result = [op |-> "none"]
    /\ io = <<>>
    /\ baseline = [p \in VerifiedPaths |-> Absent]
    /\ faults = [calls |-> 0, failed |-> 0]

SpecPorts == PortsInit /\ [][PortsNext]_vars

\* Inputs of the firewall specification
IpInputs == {"127.0.0.1", "192.168.1.100", "203.0.113.9", "10.0.0.66"}

FwAdd ==
    /\ \E ip \in IpInputs : AddBlockedIp(ip)
    /\ UNCHANGED <<wsVars, detVars, alertVars, os_rules, system, faults, port_result, io, baseline>>
FwRemove ==
    /\ \E ip \in IpInputs : RemoveBlockedIp(ip)
    /\ UNCHANGED <<wsVars, detVars, alertVars, os_rules, system, faults, port_result, io, baseline>>
FwDetectorBlock ==
    /\ \E ip \in IpInputs : BlockIp(ip)
    /\ UNCHANGED <<wsVars, alertVars, storeVars>>

FwNext == FwAdd \/ FwRemove \/ FwDetectorBlock

SpecFirewall == Init /\ [][FwNext]_vars

\* The round-trip specification: files of any content are put in place,
\* encrypted and decrypted
RtPaths == {"secure_config.encrypted"}

RtContents(f) ==
    { Text(<<"">>), Text(<<"a">>), Text(<<"a", "">>), Text(<<BadByte, NL>>),
      f[blocked_ips_file], [f[whitelist_file] EXCEPT !.kind = "damaged"] }

RtPut ==
    /\ \E path \in RtPaths : \E c \in RtContents(fs) :
           /\ io = <<>>
           /\ fs' = [fs EXCEPT ![path] = c]
           /\ fw_result' = [op |-> "put", path |-> path, ok |-> TRUE]
    /\ UNCHANGED <<wsVars, detVars, alertVars, os_rules, system, faults, port_result, io, baseline>>
RtEncrypt ==
    /\ \E path \in RtPaths : CallEncryptFile(path)
    /\ UNCHANGED <<wsVars, detVars, alertVars>>
RtDecrypt ==
    /\ \E path \in RtPaths : \E out \in {DefaultOutput(EncPath(path)), temp_ips} :
           CallDecryptFile(EncPath(path), out)
    /\ UNCHANGED <<wsVars, detVars, alertVars>>

RoundTripNext == RtPut \/ RtEncrypt \/ RtDecrypt

SpecRoundTrip == Init /\ [][RoundTripNext]_vars

\* The integrity specification: the block-list is changed through the
\* manager and from outside, the server is restarted, and the files are
\* verified
IntIps == {"203.0.113.9"}
IntPaths == {blocked_ips_file, whitelist_file}

IntAdd ==
    /\ \E ip \in IntIps : AddBlockedIp(ip)
    /\ UNCHANGED <<wsVars, detVars, alertVars, os_rules, system, faults, port_result, io, baseline>>
IntRemove ==
    /\ \E ip \in IntIps : RemoveBlockedIp(ip)
    /\ UNCHANGED <<wsVars, detVars, alertVars, os_rules, system, faults, port_result, io, baseline>>
IntVerifyFile ==
    (\E path \in IntPaths : CallVerifyFileIntegrity(path)) /\ UNCHANGED <<wsVars, detVars, alertVars>>
IntVerifyAll == CallVerifyFirewallIntegrity /\ UNCHANGED <<wsVars, detVars, alertVars>>
IntRestart == Restart /\ UNCHANGED <<wsVars, detVars, alertVars>>
IntFlipByte == (\E path \in IntPaths : FlipByte(path)) /\ UNCHANGED <<wsVars, detVars, alertVars>>
IntPutBack == (\E path \in IntPaths : PutBack(path)) /\ UNCHANGED <<wsVars, detVars, alertVars>>

IntegrityNext ==
    \/ IntAdd
    \/ IntRemove
    \/ IntVerifyFile
    \/ IntVerifyAll
    \/ IntRestart
    \/ IntFlipByte
    \/ IntPutBack

SpecIntegrity == Init /\ [][IntegrityNext]_vars

\* somebody outside the program deletes a file
Delete(path) ==
    /\ Exists(fs, path)
    /\ fs' = [fs EXCEPT ![path] = Absent]
    /\ fw_result' = [op |-> "modified", path |-> path, ok |-> TRUE]
    /\ UNCHANGED <<os_rules, system, faults, port_result, io, baseline>>

\* The write specification: the functions that write the managed files run
\* statement by statement, file accesses fail, the process is killed and
\* started again
MaxCalls == 2
MaxFaults == 1
WriteIps == {"203.0.113.9"}
WritePorts == {always_block \o <<8888>>}

WriteCall ==
    /\ faults.calls < MaxCalls
    /\ \/ \E fn \in {"add_blocked_ip", "remove_blocked_ip"} :
              \E ip \in WriteIps : IoCall(fn, blocked_ips_file, "", <<ip>>)
       \/ IoCall("_initialize_secure_firewall", "", "", <<>>)
       \/ \E ports \in WritePorts :
              IoCall("_save_blocked_ports", blocked_ports_file, "", ports)
    /\ UNCHANGED <<wsVars, detVars, alertVars>>
WriteStep == IoStep(FALSE) /\ UNCHANGED <<wsVars, detVars, alertVars>>
WriteFault ==
    faults.failed < MaxFaults /\ IoStep(TRUE) /\ UNCHANGED <<wsVars, detVars, alertVars>>
WriteKill ==
    faults.failed < MaxFaults /\ Kill /\ UNCHANGED <<wsVars, detVars, alertVars>>

WriteNext ==
    \/ WriteCall
    \/ WriteStep
    \/ WriteFault
    \/ WriteKill

SpecWrite == Init /\ [][WriteNext]_vars

\* The failure specification: every store function runs statement by
\* statement while files are deleted or damaged from outside and file
\* accesses fail
FailCall ==
    /\ faults.calls < MaxCalls
    /\ \/ \E fn \in {"add_blocked_ip", "remove_blocked_ip"} :
              \E ip \in WriteIps : IoCall(fn, blocked_ips_file, "", <<ip>>)
       \/ IoCall("get_blocked_ips", blocked_ips_file, "", <<>>)
       \/ IoCall("verify_file_integrity", blocked_ips_file, "", <<>>)
       \/ IoCall("load_secure_config", blocked_ips_file, "", <<>>)
       \/ IoCall("encrypt_file", blocked_ips_file, "", <<>>)
       \/ IoCall("decrypt_file", blocked_ips_file, temp_ips, <<>>)
    /\ UNCHANGED <<wsVars, detVars, alertVars>>
FailStep == IoStep(FALSE) /\ UNCHANGED <<wsVars, detVars, alertVars>>
FailFault ==
    faults.failed < MaxFaults /\ IoStep(TRUE) /\ UNCHANGED <<wsVars, detVars, alertVars>>
FailFlipByte ==
    io = <<>> /\ FlipByte(blocked_ips_file) /\ UNCHANGED <<wsVars, detVars, alertVars>>
FailDelete ==
    io = <<>> /\ Delete(blocked_ips_file) /\ UNCHANGED <<wsVars, detVars, alertVars>>

FailNext ==
    \/ FailCall
    \/ FailStep
    \/ FailFault
    \/ FailFlipByte
    \/ FailDelete

SpecFail == Init /\ [][FailNext]_vars

\* The lockdown specification: ports are blocked and unblocked one by one
\* and by the emergency function, the encrypted list of the blocked ports
\* is damaged or deleted from outside, and the blocker is asked what is
\* blocked
LockOsRules == 1
LockPorts == {8080, 80, 8888}

\* what the firewall commands of one emergency call do, port by port
LockOutcomes ==
    {[port \in Range(unencrypted_ports) |-> o] : o \in Outcomes}
    \cup {[port \in Range(unencrypted_ports) |->
              IF port = 9000 THEN "OSError" ELSE "ok"]}

LockBlock ==
    /\ \E p \in LockPorts : \E o \in Outcomes :
           Len(os_rules) < LockOsRules /\ BlockPort(p, o)
    /\ UNCHANGED <<wsVars, detVars, alertVars, fw_result, io, baseline, faults>>
LockUnblock ==
    /\ \E p \in LockPorts : \E o \in Outcomes : UnblockPort(p, o)
    /\ UNCHANGED <<wsVars, detVars, alertVars, fw_result, io, baseline, faults>>
LockEmergency ==
    /\ \E outcomes \in LockOutcomes :
           Len(os_rules) < LockOsRules /\ EmergencyBlockAllUnencrypted(outcomes)
    /\ UNCHANGED <<wsVars, detVars, alertVars, fw_result, io, baseline, faults>>
LockIsPortBlocked ==
    /\ \E p \in LockPorts \cup {9090} : CallIsPortBlocked(p)
    /\ UNCHANGED <<wsVars, detVars, alertVars, fw_result, io, baseline, faults>>
LockFlipByte == FlipByte(blocked_ports_file) /\ UNCHANGED <<wsVars, detVars, alertVars>>
LockDelete == Delete(blocked_ports_file) /\ UNCHANGED <<wsVars, detVars, alertVars>>

LockdownNext ==
    \/ LockBlock
    \/ LockUnblock
    \/ LockEmergency
    \/ LockIsPortBlocked
    \/ LockFlipByte
    \/ LockDelete

SpecLockdown == Init /\ [][LockdownNext]_vars

\* The query specification: the three encrypted lists are damaged or
\* deleted from outside and the managers are asked what is blocked and
\* what is whitelisted
QryOsRules == 1
QryPorts == {80, 8888}
QryIps == {"127.0.0.1", "192.168.1.100", "203.0.113.9"}
QryFiles == {blocked_ports_file, blocked_ips_file, whitelist_file}

QryBlock ==
    /\ \E p \in QryPorts : \E o \in Outcomes :
           Len(os_rules) < QryOsRules /\ BlockPort(p, o)
    /\ UNCHANGED <<wsVars, detVars, alertVars, fw_result, io, baseline, faults>>
QryIsPortBlocked ==
    /\ \E p \in QryPorts : CallIsPortBlocked(p)
    /\ UNCHANGED <<wsVars, detVars, alertVars, fw_result, io, baseline, faults>>
QryIsIpBlocked ==
    /\ \E ip \in QryIps : CallIsIpBlocked(ip)
    /\ UNCHANGED <<wsVars, detVars, alertVars, os_rules, system, faults, port_result, io, baseline>>
QryIsIpWhitelisted ==
    /\ \E ip \in QryIps : CallIsIpWhitelisted(ip)
    /\ UNCHANGED <<wsVars, detVars, alertVars, os_rules, system, faults, port_result, io, baseline>>
QryFlipByte ==
    (\E path \in QryFiles : FlipByte(path)) /\ UNCHANGED <<wsVars, detVars, alertVars>>
QryDelete ==
    (\E path \in QryFiles : Delete(path)) /\ UNCHANGED <<wsVars, detVars, alertVars>>

QueryNext ==
    \/ QryBlock
    \/ QryIsPortBlocked
    \/ QryIsIpBlocked
    \/ QryIsIpWhitelisted
    \/ QryFlipByte
    \/ QryDelete

SpecQuery == Init /\ [][QueryNext]_vars

\* The socket specification: clients connect, exchange messages and
\* disconnect in any way while metrics are broadcast
WsMessages == {"text", "invalid json", "error", "close"}

SockConnect ==
    (\E ws \in WsIds : WsConnect(ws)) /\ UNCHANGED <<detVars, alertVars, storeVars>>
SockPrepared ==
    /\ \E ws \in WsIds : \E ok \in BOOLEAN : WsPrepared(ws, ok)
    /\ UNCHANGED <<detVars, alertVars, storeVars>>
SockSent ==
    /\ \E ws \in WsIds : \E ok \in BOOLEAN : WsSent(ws, ok)
    /\ UNCHANGED <<detVars, alertVars, storeVars>>
SockMessage ==
    /\ \E ws \in WsIds : \E msg \in WsMessages : WsMessage(ws, msg)
    /\ UNCHANGED <<detVars, alertVars, storeVars>>
SockCancelled ==
    (\E ws \in WsIds : WsCancelled(ws)) /\ UNCHANGED <<detVars, alertVars, storeVars>>
SockBroadcastStart == BroadcastStart /\ UNCHANGED <<detVars, alertVars, storeVars>>
SockBroadcastSend ==
    (\E ws \in WsIds : BroadcastSend(ws)) /\ UNCHANGED <<detVars, alertVars, storeVars>>
SockBroadcastSent ==
    (\E ok \in BOOLEAN : BroadcastSent(ok)) /\ UNCHANGED <<detVars, alertVars, storeVars>>

SocketNext ==
    \/ SockConnect
    \/ SockPrepared
    \/ SockSent
    \/ SockMessage
    \/ SockCancelled
    \/ SockBroadcastStart
    \/ SockBroadcastSend
    \/ SockBroadcastSent

SpecSocket == Init /\ [][SocketNext]_vars

----------------------------------------------------------------------------
(* Claims about the detector                                               *)

HasFinding(threats, type) == \E i \in DOMAIN threats : threats[i].type = type

FindingsOf(threats, type) == {i \in DOMAIN threats : threats[i].type = type}

\* C1: every analyze_packet call returns an integer risk score between 0
\* and 100, whatever the payload, the source and the detector state.
C1_RiskScoreInRange ==
    result.op = "analyze_packet" =>
        result.risk_score \in 0..100

\* a call whose signature findings alone add up to more than 100
C1_Witness ==
    /\ result.op = "analyze_packet"
    /\ Cardinality(FindingsOf(result.threats, "sql_injection")
                   \cup FindingsOf(result.threats, "command_injection")) = 2
    /\ result.risk_score = 100

\* C2: the returned risk score is min(100, sum of the severity scores of all
\* the findings in the returned threats list), behavioral and reputation
\* findings included.
C2_RiskIsSumOfAllFindings ==
    result.op = "analyze_packet" =>
        result.risk_score = Min(100, SumScores(result.threats))

\* observations of source s made in the minute that ends at time t
ObservedInLastMinute(s, t) ==
    Cardinality({i \in DOMAIN observed[s] :
                    observed[s][i] <= t /\ t - observed[s][i] < 60})

\* C3: an observation of source s yields a connection_flooding finding, of
\* severity high, exactly when s itself was observed more than
\* max_connections_per_minute (100) times in the last 60 seconds, the
\* current observation included.
C3_FloodingIffOverThreshold ==
    result.op = "analyze_packet" =>
        /\ HasFinding(result.threats, "connection_flooding")
              <=> ObservedInLastMinute(result.src_ip, result.at) > 100
        /\ \A i \in FindingsOf(result.threats, "connection_flooding") :
              result.threats[i].severity = "high"
        /\ Cardinality(FindingsOf(result.threats, "connection_flooding")) <= 1

\* the 101st observation of the burst source within a minute, while the
\* other source was observed too
C3_Witness ==
    /\ result.op = "analyze_packet"
    /\ result.src_ip = "10.0.0.66"
    /\ ObservedInLastMinute("10.0.0.66", result.at) = 101
    /\ Len(observed["127.0.0.1"]) > 0
    /\ HasFinding(result.threats, "connection_flooding")

----------------------------------------------------------------------------
(* Claims about the alert system                                           *)

\* the alert meets the three conditions of the auto-block rule
MeetsAutoBlock(a) ==
    /\ a.severity = "critical"
    /\ a.type = "threat_detected"
    /\ a.source_ip \notin {NoneVal, ""}

\* The lifecycle specification: alerts are created, and the alerts of the
\* registry acknowledged and resolved, in any order, also while a create
\* call waits for a send; the sends go through
LifeAlerts == 3
LifeClockMs == 2
LifeResolved == 1
LifeInputs ==
    { CreateArgs("threat_detected", "critical", "10.0.0.66", "none"),
      CreateArgs("system_anomaly", "high", NoneVal, "none") }
LifeCreate ==
    /\ \E args \in LifeInputs :
           Len(alert_history) + 1 < LifeAlerts /\ CreateAlert(1, args)
    /\ UNCHANGED <<wsVars, detVars, storeVars>>
LifeProcess ==
    /\ \E t \in TaskIds : Len(alert_history) <= LifeAlerts /\ ProcessAlert(t)
    /\ UNCHANGED <<wsVars, detVars, storeVars>>
LifeSendDone ==
    /\ \E t \in TaskIds :
           /\ tasks[t] # <<>>
           /\ Top(t).pc = "send"
           /\ SendDone(t, Top(t).ws, TRUE)
    /\ UNCHANGED <<wsVars, detVars, storeVars>>
LifeAcknowledge ==
    (\E id \in DOMAIN alerts : AcknowledgeAlert(id)) /\ UNCHANGED <<wsVars, detVars, storeVars>>
LifeResolve ==
    /\ \E id \in DOMAIN alerts :
           stats.resolved_alerts < LifeResolved /\ ResolveAlert(id)
    /\ UNCHANGED <<wsVars, detVars, storeVars>>
LifeClock == clock_ms < LifeClockMs /\ AlertTick /\ UNCHANGED <<wsVars, detVars, storeVars>>

LifecycleNext ==
    \/ LifeCreate
    \/ LifeProcess
    \/ AlertNotifyStart
    \/ AlertNotifyLoop
    \/ LifeSendDone
    \/ AlertReturn
    \/ AlertSubscribe
    \/ LifeAcknowledge
    \/ LifeResolve
    \/ LifeClock

SpecLifecycle == Init /\ [][LifecycleNext]_vars

\* The counter specification: alerts are created while nobody is
\* subscribed, and the alerts of the registry are acknowledged and resolved
\* any number of times
CntAlerts == 3
CntClockMs == 2
CntResolved == 2
CntInputs ==
    { CreateArgs("threat_detected", "critical", "10.0.0.66", "none"),
      CreateArgs("system_anomaly", "high", NoneVal, "none") }
CntCreate ==
    /\ \E args \in CntInputs :
           Len(alert_history) + 1 < CntAlerts /\ CreateAlert(1, args)
    /\ UNCHANGED <<wsVars, detVars, storeVars>>
CntProcess ==
    /\ \E t \in TaskIds : Len(alert_history) <= CntAlerts /\ ProcessAlert(t)
    /\ UNCHANGED <<wsVars, detVars, storeVars>>
CntAcknowledge ==
    (\E id \in DOMAIN alerts : AcknowledgeAlert(id)) /\ UNCHANGED <<wsVars, detVars, storeVars>>
CntResolve ==
    /\ \E id \in DOMAIN alerts :
           stats.resolved_alerts < CntResolved /\ ResolveAlert(id)
    /\ UNCHANGED <<wsVars, detVars, storeVars>>
CntClock == clock_ms < CntClockMs /\ AlertTick /\ UNCHANGED <<wsVars, detVars, storeVars>>

CounterNext ==
    \/ CntCreate
    \/ CntProcess
    \/ AlertNotifyStart
    \/ AlertReturn
    \/ CntAcknowledge
    \/ CntResolve
    \/ CntClock

SpecCounters == Init /\ [][CounterNext]_vars

\* The rule specification: callers register rules that raise, also while a
\* create call waits for a send, and alerts are created and published
MaxRules == 5
MaxRuleAlerts == 3
RuleInputs ==
    { CreateArgs("threat_detected", "critical", "10.0.0.66", "none"),
      CreateArgs("system_anomaly", "high", NoneVal, "none") }

RulesCreate ==
    /\ \E args \in RuleInputs :
           Len(alert_history) + 1 < MaxRuleAlerts /\ CreateAlert(1, args)
    /\ UNCHANGED <<wsVars, detVars, storeVars>>
RulesAdd ==
    /\ \E name \in CustomRules :
           Len(alert_rules) < MaxRules /\ AddAlertRule(name)
    /\ UNCHANGED <<wsVars, detVars, storeVars>>
RulesProcess ==
    /\ \E t \in TaskIds : Len(alert_history) <= MaxRuleAlerts /\ ProcessAlert(t)
    /\ UNCHANGED <<wsVars, detVars, storeVars>>

RulesNext ==
    \/ RulesCreate
    \/ RulesAdd
    \/ RulesProcess
    \/ AlertNotifyStart
    \/ AlertNotifyLoop
    \/ AlertSendDone
    \/ AlertReturn
    \/ AlertSubscribe

SpecRules == Init /\ [][RulesNext]_vars

RECURSIVE AlertsExpected(_)
AlertsExpected(calls) ==
    IF calls = <<>> THEN 0
    ELSE (IF MeetsAutoBlock(alert_history[Head(calls).alert]) THEN 2 ELSE 1)
         + AlertsExpected(Tail(calls))

\* C4: a create call for an alert that is critical, of type threat_detected
\* and has a non-empty source identifier has created exactly one more alert,
\* of type ip_blocked and with the same source identifier, and stored it in
\* the history, by the time it returns; a create call for any other alert
\* has created no other alert.
C4_AutoBlockAlert ==
    /\ \A k \in DOMAIN returned :
          LET e == returned[k]
              a == alert_history[e.alert]
          IN  IF MeetsAutoBlock(a)
              THEN /\ Len(e.children) = 1
                   /\ e.children[1] \in DOMAIN alert_history
                   /\ alert_history[e.children[1]].type = "ip_blocked"
                   /\ alert_history[e.children[1]].source_ip = a.source_ip
              ELSE e.children = <<>>
    /\ (\A t \in TaskIds : tasks[t] = <<>>) =>
          Len(alert_history) = AlertsExpected(returned)

\* a create call of a critical threat_detected alert with a source has returned
C4_Witness ==
    \E k \in DOMAIN returned :
        /\ MeetsAutoBlock(alert_history[returned[k].alert])
        /\ Len(returned[k].children) = 1
        /\ alert_history[returned[k].children[1]].type = "ip_blocked"

\* C5: with the default rules the alert synthesized by the auto-block rule
\* never triggers the rule again: create calls nest at most two deep, a call
\* creates at most one further alert, and a call in progress can always
\* take its next step.
C5_CreateNestsAtMostTwice ==
    /\ \A t \in TaskIds :
          /\ Len(tasks[t]) <= 2
          /\ \A k \in DOMAIN tasks[t] :
                /\ Len(tasks[t][k].children) <= 1
                /\ k > 1 => tasks[t][k].children = <<>>
    /\ \A i \in DOMAIN alert_history :
          alert_history[i].metadata = "auto_blocked" =>
              ~MeetsAutoBlock(alert_history[i])
    /\ \A k \in DOMAIN returned : Len(returned[k].children) <= 1
    /\ \A t \in TaskIds :
          (tasks[t] # <<>> /\ running = t) =>
              ENABLED (ProcessAlert(t) \/ NotifyStart(t) \/ NotifyLoop(t)
                       \/ ReturnAlert(t))

\* the nested create call of the auto-block rule is in progress
C5_Witness ==
    \E t \in TaskIds :
        /\ Len(tasks[t]) = 2
        /\ Top(t).pc = "return"
        /\ alert_history[Top(t).alert].metadata = "auto_blocked"

\* C6: every alert gets an id that no earlier alert has, also when two alerts
\* are created within the same clock tick, so storing a new alert never
\* overwrites an entry of the registry.
C6_AlertIdsUnique ==
    \A i \in DOMAIN alert_history : \A j \in DOMAIN alert_history :
        i # j => alert_history[i].id # alert_history[j].id

\* C7: resolve(id) of a known alert that is active returns true, sets its
\* resolved flag, takes one from the active count, adds one to the resolved
\* count and changes nothing else: not total_alerts, not the history, not
\* any other alert.
C7_ResolveActiveAlert ==
    [][\A id \in DOMAIN alerts :
          (ResolveAlert(id) /\ ~alert_history[alerts[id]].resolved) =>
              /\ alert_result' = [op |-> "resolve", id |-> id, ok |-> TRUE]
              /\ alert_history' =
                     [alert_history EXCEPT ![alerts[id]].resolved = TRUE]
              /\ stats' = [stats EXCEPT !.active_alerts = @ - 1,
                                        !.resolved_alerts = @ + 1]
              /\ alerts' = alerts]_vars

\* an alert was resolved while another alert was in the history
C7_Witness ==
    /\ alert_result = [op |-> "resolve", id |-> 1, ok |-> TRUE]
    /\ Len(alert_history) = 2
    /\ stats.resolved_alerts = 1
    /\ stats.active_alerts = 1

\* C8: acknowledge(id) and resolve(id) of an id that is not in the registry
\* return false and change nothing: no alert, no counter, not the history,
\* not the subscribers.
C8_UnknownIdChangesNothing ==
    [][\A id \in AlertIds :
          ((AcknowledgeAlert(id) \/ ResolveAlert(id)) /\ id \notin DOMAIN alerts) =>
              /\ alert_result'.ok = FALSE
              /\ UNCHANGED <<alerts, alert_history, stats, subscribers>>]_vars

\* resolve of an unknown id was refused while there were alerts
C8_Witness ==
    /\ alert_result.op = "resolve"
    /\ alert_result.ok = FALSE
    /\ alert_result.id \notin DOMAIN alerts
    /\ alert_history # <<>>

\* the delivery attempts of the publish of alert a to subscriber ws
Attempts(ws, a) ==
    Cardinality({k \in DOMAIN sent_log :
                    sent_log[k].ws = ws /\ sent_log[k].alert = a})

\* the subscribers whose send failed during the publish of alert a
FailedSends(a) ==
    {k \in DOMAIN sent_log : sent_log[k].alert = a /\ ~sent_log[k].ok}

\* a call of create_alert whose publish has just ended
PublishEnded(t) ==
    /\ tasks[t] # <<>>
    /\ Top(t).pc = "return"
    /\ Top(t).start # <<>>

\* C11: when a publish to N distinct subscribers, during which nobody else
\* changes the subscriber list, has exactly one failing send, then at its
\* end the failing subscriber is out of the list, the other N-1 are still
\* in it, and each of them got exactly one delivery attempt.
C11_OneFailureRemovesOnlyThatSubscriber ==
    \A t \in TaskIds :
        (/\ PublishEnded(t)
         /\ Top(t).steady
         /\ Cardinality(FailedSends(Top(t).alert)) = 1)
        => \A k \in FailedSends(Top(t).alert) :
             \A ws \in Range(Top(t).start) :
                IF ws = sent_log[k].ws
                THEN ws \notin Range(subscribers)
                ELSE /\ ws \in Range(subscribers)
                     /\ Attempts(ws, Top(t).alert) = 1

\* a publish to two subscribers has ended; the send to the first failed, the
\* send to the second went through
C11_Witness ==
    \E t \in TaskIds :
        /\ PublishEnded(t)
        /\ Top(t).steady
        /\ Len(Top(t).start) = 2
        /\ Len(sent_log) = 2
        /\ ~sent_log[1].ok /\ sent_log[2].ok
        /\ subscribers = <<Top(t).start[2]>>

\* C12: a publish works on the subscribers registered when it started: at
\* its end every subscriber that was registered then and was not removed
\* since has got exactly one delivery attempt, whatever was added to or
\* removed from the list while the publish waited for a send.
C12_PublishIteratesSnapshot ==
    \A t \in TaskIds :
        PublishEnded(t)
        => \A ws \in Top(t).kept : Attempts(ws, Top(t).alert) = 1

----------------------------------------------------------------------------
(* Claims about the port blocker and the firewall                          *)

\* C9: block_port(p) for a port p of the always-allow set returns False and
\* changes nothing: the persisted blocked-port list and every file are as
\* before, and no block for p goes to the OS firewall.
C9_AlwaysAllowedNotBlocked ==
    [][\A p \in always_allow : \A o \in Outcomes :
          BlockPort(p, o) =>
              /\ port_result' = [op |-> "block_port", port |-> p, ok |-> FALSE]
              /\ GetBlockedPorts(fs').ports = GetBlockedPorts(fs).ports
              /\ fs' = fs
              /\ os_rules' = os_rules]_vars

\* block_port(8080) was refused after another port had been blocked and saved
C9_Witness ==
    /\ port_result = [op |-> "block_port", port |-> 8080, ok |-> FALSE]
    /\ Exists(fs, blocked_ports_file)
    /\ 8080 \notin Range(GetBlockedPorts(fs).ports)

\* C10: no IP address is in the whitelist and in a blocked set at the same
\* time, whatever add_blocked_ip / remove_blocked_ip calls were made on the
\* firewall and block_ip calls on the detector.
C10_WhitelistedNeverBlocked ==
    \A ip \in Range(whitelist_ips) :
        /\ ~(IsIpWhitelisted(fs, ip) /\ ip \in Range(GetBlockedIps(fs)))
        /\ ip \notin malicious_ips

----------------------------------------------------------------------------
(* Claims about the encrypted store                                        *)

\* the last two calls were encrypt_file of an existing file and then
\* decrypt_file of the file it made
RoundTripMade ==
    /\ fw_result.op = "decrypt_file"
    /\ fw_result.after.op = "encrypt_file"
    /\ fw_result.after.content.kind # "absent"
    /\ fw_result.path = EncPath(fw_result.after.path)

C14_VerifyIffUnmodified ==
    [][\A path \in IntPaths :
          (CallVerifyFileIntegrity(path) /\ Exists(fs, HashPath(path)))
          => /\ fw_result'.ok = (fs[path] = baseline[path])
             /\ fs' = fs]_vars

\* a verification failed for a file with a flipped byte, and the hash file
\* still holds the hash of the original
C14_Witness ==
    /\ fw_result.op = "verify_file_integrity"
    /\ ~fw_result.ok
    /\ fs[fw_result.path].kind = "damaged"
    /\ Exists(fs, HashPath(fw_result.path))
    /\ fs[HashPath(fw_result.path)].data = Sha256(baseline[fw_result.path])

\* the last thing that happened to the block-list was a write through the
\* manager that succeeded
WrittenThroughStore ==
    /\ fw_result.op \in {"__init__", "add_blocked_ip", "remove_blocked_ip"}
    /\ fw_result.ok

\* C15: the verification that follows a successful write of the block-list
\* through the manager (construction, add_blocked_ip, remove_blocked_ip),
\* with nothing in between, returns true, also when a hash file was already
\* there.
C15_VerifyAfterWritePasses ==
    [][(CallVerifyFileIntegrity(blocked_ips_file) /\ WrittenThroughStore)
       => fw_result'.ok]_vars

\* the encrypted files at their final locations
FinalPaths == {blocked_ips_file, whitelist_file, rules_file, blocked_ports_file}

\* C16: whatever a write of a managed file does, step by step and also when
\* a step fails or the process is killed, each encrypted file at its final
\* location is either left as it was or holds a complete new token; it is
\* never empty or partly written.
C16_WritePathAtomic ==
    [][\A path \in FinalPaths :
          fs'[path] = fs[path] \/ fs'[path].kind = "fernet"]_vars

\* the rules evaluated for alert a, in the order of their evaluation
RulesSeen(a) ==
    LET mine == SelectSeq(rule_log, LAMBDA e : e.alert = a)
    IN  [k \in DOMAIN mine |-> mine[k].rule]

IsPrefix(s, t) == Len(s) <= Len(t) /\ s = SubSeq(t, 1, Len(s))

\* the next iteration of the rule loop of task t meets a rule that raises
AtRaisingRule(t) ==
    /\ running = t
    /\ tasks[t] # <<>>
    /\ Top(t).pc = "rules"
    /\ Top(t).rule <= Len(alert_rules)
    /\ RuleRaises(alert_rules[Top(t).rule], alert_history[Top(t).alert])

\* C17: for every alert each registered rule is evaluated once, in
\* registration order: the evaluations made so far are the first rules of the
\* list, and when the loop has ended they are the whole list. A rule whose
\* condition or action raises does not stop this: the call goes on, its
\* publish makes one attempt per subscriber, every created alert is returned
\* by its call, and the step of the raising rule changes no alert.
C17_RulesEvaluatedOnceInOrder ==
    /\ [](/\ \A a \in DOMAIN alert_history : IsPrefix(RulesSeen(a), alert_rules)
          /\ \A t \in TaskIds : \A k \in DOMAIN tasks[t] :
                LET f == tasks[t][k]
                IN  /\ f.pc = "rules" => Len(RulesSeen(f.alert)) = f.rule - 1
                    /\ f.pc = "notify" => RulesSeen(f.alert) = alert_rules
                    /\ f.pc # "rules" =>
                          Len(RulesSeen(f.alert)) >= Len(DefaultRules)
                    /\ (f.pc = "return" /\ f.steady) =>
                          \A ws \in Range(f.start) : Attempts(ws, f.alert) = 1
          /\ (\A t \in TaskIds : tasks[t] = <<>>) =>
                \A a \in DOMAIN alert_history :
                    /\ Len(RulesSeen(a)) >= Len(DefaultRules)
                    /\ \E k \in DOMAIN returned :
                          \/ returned[k].alert = a
                          \/ a \in Range(returned[k].children)
          /\ \A t \in TaskIds :
                (tasks[t] # <<>> /\ running = t) =>
                    ENABLED (ProcessAlert(t) \/ NotifyStart(t) \/ NotifyLoop(t)
                             \/ ReturnAlert(t)))
    /\ [][(\E t \in TaskIds : AtRaisingRule(t))
            => /\ alert_history' = alert_history
               /\ alerts' = alerts
               /\ stats' = stats
               /\ \E t \in TaskIds :
                     /\ AtRaisingRule(t)
                     /\ tasks'[t] # <<>>
                     /\ Top(t)' = [Top(t) EXCEPT !.rule = @ + 1]]_vars

\* a create call has returned an alert for which a rule with a raising
\* condition, then a rule with a raising action were evaluated, and which
\* was sent to the subscriber
C17_Witness ==
    \E k \in DOMAIN returned :
        LET a == returned[k].alert
        IN  /\ Len(alert_history) > 1
            /\ RulesSeen(a) = DefaultRules \o <<"raising condition", "raising action">>
            /\ Attempts("ws1", a) = 1

\* the store functions that decrypt the file they are called for
Decrypting ==
    {"decrypt_file", "load_secure_config", "get_blocked_ips", "add_blocked_ip",
     "remove_blocked_ip"}

StoreFunctions == Decrypting \cup {"encrypt_file", "verify_file_integrity"}

\* a store function has returned, and the file it was called for was
\* missing when the call started, could not be read, or (for a function that
\* decrypts it) was not a token the key opens
ReturnedFromBadFile ==
    /\ io = <<>>
    /\ fw_result.op \in StoreFunctions
    /\ \/ fw_result.before.kind = "absent"
       \/ fw_result.cause = "unreadable"
       \/ /\ fw_result.op \in Decrypting
          /\ ~CanDecrypt(MasterKey, fw_result.before)

\* C18: a store function called for a file that is missing, unreadable or
\* not decryptable returns its failure value (False, the empty list, the
\* empty map) instead of raising, and add_blocked_ip / remove_blocked_ip
\* leave the encrypted block-list as it was.
C18_StoreFailuresReturned ==
    ReturnedFromBadFile
    => /\ ~fw_result.ok
       /\ fw_result.list = <<>>
       /\ fw_result.op \in {"add_blocked_ip", "remove_blocked_ip"}
          => fs[blocked_ips_file] = fw_result.before

\* add_blocked_ip has returned False for a block-list with a flipped byte
C18_Witness ==
    /\ ReturnedFromBadFile
    /\ fw_result.op = "add_blocked_ip"
    /\ fw_result.before.kind = "damaged"
    /\ fw_result.cause = "undecryptable"
    /\ ~fw_result.ok

\* C19: remove_blocked_ip for an address that is not in the block-list, and
\* unblock_port for a port that is not in the blocked-port list, return False
\* and leave the persisted lists and the operating-system rules as they were.
C19_RemovingAbsentEntryRefused ==
    [][/\ \A ip \in IpInputs :
             (RemoveBlockedIp(ip) /\ ip \notin Range(GetBlockedIps(fs)))
             => /\ ~fw_result'.ok
                /\ fs'[blocked_ips_file] = fs[blocked_ips_file]
       /\ \A port \in PortInputs :
             (/\ \E outcome \in Outcomes : UnblockPort(port, outcome)
              /\ port \notin Range(GetBlockedPorts(fs).ports))
             => /\ ~port_result'.ok
                /\ fs'[blocked_ports_file] = fs[blocked_ports_file]
                /\ os_rules' = os_rules]_vars

\* the observations of source s made at most 3600 seconds before time t
ObservedInLastHour(s, t) ==
    Cardinality({i \in DOMAIN observed[s] : t - observed[s][i] <= 3600})

\* C20: after an observation of a source its window contains the time of
\* that observation and no time more than 3600 seconds before it, and the
\* scan rule has read the pruned window: it reports port scanning only when
\* more than 20 observations lie within the last 3600 seconds.
C20_WindowPrunedBeforeRead ==
    result.op = "analyze_packet"
    => LET w == connection_frequency[result.src_ip]
       IN  /\ result.at \in Range(w)
           /\ \A t \in Range(w) : result.at - t <= 3600
           /\ HasFinding(result.threats, "port_scanning")
              => ObservedInLastHour(result.src_ip, result.at) > 20

\* an observation was made after more than 20 earlier ones had become older
\* than one hour: they are gone from the window and no scan is reported
C20_Witness ==
    /\ result.op = "analyze_packet"
    /\ Len(observed[result.src_ip]) > 21
    /\ ObservedInLastHour(result.src_ip, result.at) = 1
    /\ connection_frequency[result.src_ip] = <<result.at>>
    /\ ~HasFinding(result.threats, "port_scanning")

----------------------------------------------------------------------------
(* Claims about the alert lifecycle                                        *)

\* alert a is the alert of a create call that is still in progress
InCreate(a) ==
    \E t \in TaskIds : \E k \in DOMAIN tasks[t] : tasks[t][k].alert = a

NoRepeats(s) == \A i, j \in DOMAIN s : s[i] = s[j] => i = j

Created(alert) ==
    [id |-> alert.id, type |-> alert.type, severity |-> alert.severity,
     source_ip |-> alert.source_ip, metadata |-> alert.metadata]

\* C23: the history is append-only and in creation order: a step either
\* keeps its length or appends one alert, carrying the id read from the
\* clock, at the end; no step removes, replaces or reorders an entry; and
\* the ids along the history never decrease, also when a rule action creates
\* a nested alert.
C23_HistoryAppendOnly ==
    /\ [](\A i, j \in DOMAIN alert_history :
            i < j => alert_history[i].id <= alert_history[j].id)
    /\ [][/\ Len(alert_history') \in {Len(alert_history), Len(alert_history) + 1}
          /\ \A i \in DOMAIN alert_history :
                Created(alert_history'[i]) = Created(alert_history[i])
          /\ Len(alert_history') > Len(alert_history)
             => alert_history'[Len(alert_history')].id = clock_ms]_vars

\* three alerts are in the history, one of them created by a rule action,
\* the clock has moved between two creations and the first one is resolved
C23_Witness ==
    /\ Len(alert_history) = 3
    /\ \E i \in DOMAIN alert_history : alert_history[i].metadata = "auto_blocked"
    /\ alert_history[1].id < alert_history[3].id
    /\ alert_history[1].resolved

----------------------------------------------------------------------------
(* Claims about reputation, signatures and the scan rule                   *)

\* C24: a classification emits a malicious_ip finding of severity critical
\* for its source exactly when the source is in the malicious set, that is,
\* was made malicious by add_malicious_ip or a successful block_ip and not
\* unblocked since.
C24_MaliciousFollowsBlockUnblock ==
    result.op = "analyze_packet"
    => /\ HasFinding(result.threats, "malicious_ip")
          <=> result.src_ip \in malicious_ips
       /\ \A i \in FindingsOf(result.threats, "malicious_ip") :
             result.threats[i].severity = "critical"

\* C25: every classification that attributes at least one finding to its
\* source adds one to the suspicion counter of that source, and a
\* classification emits suspicious_ip exactly when it finds the counter of
\* its source above 3.
C25_SuspicionCountsFindings ==
    [][\A p \in Payloads : \A src_ip \in SrcIPs :
          AnalyzePacket(p, src_ip)
          => /\ result'.threats # <<>>
                => suspicious_ips'[src_ip] =
                       SuspicionRead(suspicious_ips, src_ip)[src_ip] + 1
             /\ HasFinding(result'.threats, "suspicious_ip")
                <=> SuspicionRead(suspicious_ips, src_ip)[src_ip] > 3]_vars

\* C26: when create has returned for an alert of severity critical, type
\* threat_detected and with a source identifier, that identifier is in the
\* detector's malicious set or in the firewall's block-list.
C26_AutoBlockBlocks ==
    \A k \in DOMAIN returned :
        LET a == alert_history[returned[k].alert]
        IN  MeetsAutoBlock(a)
            => \/ a.source_ip \in malicious_ips
               \/ a.source_ip \in Range(GetBlockedIps(fs))

\* payloads whose decoded, lower-cased text holds an SQL verb followed on
\* the same line by "from"
SqlPayloads ==
    { <<"UNION", "SELECT", "from">>, <<"un", BadByte, "ion", "from">> }

\* C27: a classification returns, for every registered signature, exactly
\* one finding of that type, with the severity of the signature and
\* confidence 0.9, when the pattern matches the decoded lower-cased payload,
\* and no finding of that type when it does not; an SQL-injection payload
\* gets a finding of type sql_injection and severity critical.
C27_OneFindingPerMatchingSignature ==
    [][\A p \in Payloads : \A src_ip \in SrcIPs :
          AnalyzePacket(p, src_ip)
          => /\ \A k \in DOMAIN threat_patterns :
                   LET found == FindingsOf(result'.threats, threat_patterns[k].type)
                   IN  IF re_search(threat_patterns[k].type, Decode(p))
                       THEN /\ Cardinality(found) = 1
                            /\ \A i \in found :
                                  result'.threats[i] =
                                      Finding(threat_patterns[k].type,
                                              threat_patterns[k].severity, 90)
                       ELSE found = {}
             /\ p \in SqlPayloads
                => \E i \in DOMAIN result'.threats :
                      result'.threats[i] = Finding("sql_injection", "critical", 90)]_vars

\* a payload matched two signatures and got one finding for each
C27_Witness ==
    /\ result.op = "analyze_packet"
    /\ result.threats = << Finding("sql_injection", "critical", 90),
                           Finding("command_injection", "critical", 90) >>

\* the observations of source s that the pruning at time t keeps
ObservedInWindow(s, t) ==
    Cardinality({i \in DOMAIN observed[s] : observed[s][i] > t - 3600})

\* C28: an observation of a source emits one port_scanning finding, of
\* severity medium, exactly when the pruned one-hour window of the source,
\* with the current observation appended, holds more than 20 entries.
C28_ScanIffOverTwenty ==
    result.op = "analyze_packet"
    => LET found == FindingsOf(result.threats, "port_scanning")
       IN  /\ Len(connection_frequency[result.src_ip]) =
                  ObservedInWindow(result.src_ip, result.at)
           /\ found # {} <=> ObservedInWindow(result.src_ip, result.at) > 20
           /\ Cardinality(found) <= 1
           /\ \A i \in found : result.threats[i] = Finding("port_scanning", "medium", 70)

\* the observation that brought the window to 21 entries, after older
\* entries had been pruned, reported port scanning
C28_Witness ==
    /\ result.op = "analyze_packet"
    /\ Len(connection_frequency[result.src_ip]) = 21
    /\ Len(observed[result.src_ip]) > 21
    /\ HasFinding(result.threats, "port_scanning")

----------------------------------------------------------------------------
(* Claims about the order of rules and publish                             *)

\* how far a create call has got
Stage(pc) ==
    CASE pc = "rules" -> 1
      [] pc = "notify" -> 2
      [] pc \in {"loop", "send"} -> 3
      [] pc = "return" -> 4

\* C29: an alert is published only after every registered rule was
\* evaluated for it, the alert a rule action creates is published before the
\* alert that triggered the rule, a create call never goes back from the
\* publish to the rules or starts the publish again, and a publish makes
\* one delivery attempt per subscriber.
C29_PublishAfterRules ==
    /\ [](/\ \A k \in DOMAIN sent_log :
                RulesSeen(sent_log[k].alert) = alert_rules
          /\ \A t \in TaskIds : \A k \in DOMAIN tasks[t] :
                LET f == tasks[t][k]
                IN  /\ Stage(f.pc) > 2 => RulesSeen(f.alert) = alert_rules
                    /\ (f.pc = "return" /\ f.steady) =>
                          \A ws \in Range(f.start) : Attempts(ws, f.alert) = 1
          /\ \A e \in Range(returned) : \A c \in Range(e.children) :
                \A i, j \in DOMAIN sent_log :
                    (sent_log[i].alert = c /\ sent_log[j].alert = e.alert)
                    => i < j
          /\ \A a \in DOMAIN alert_history : \A ws \in Sockets :
                Attempts(ws, a) <= 1)
    /\ [][\A t \in TaskIds : \A k \in DOMAIN tasks[t] :
             k \in DOMAIN tasks'[t]
             => /\ tasks'[t][k].alert = tasks[t][k].alert
                /\ Stage(tasks'[t][k].pc) >= Stage(tasks[t][k].pc)
                /\ (sent_log' # sent_log /\ k = Len(tasks[t]) /\ running' = t)
                   => sent_log'[Len(sent_log')].alert = tasks[t][k].alert]_vars

\* a create call has returned whose rule created a second alert, and both
\* alerts were sent to the subscriber, the created one first
C29_Witness ==
    \E e \in Range(returned) :
        /\ Len(e.children) = 1
        /\ Attempts("ws1", e.alert) = 1
        /\ Attempts("ws1", e.children[1]) = 1
        /\ sent_log[1].alert = e.children[1]

----------------------------------------------------------------------------
(* Claims about the steps of encrypt_file                                  *)

\* C30: when encrypt_file is about to return True the plaintext file is
\* gone, <path>.encrypted holds a token that decrypts to the content that
\* was read, and <path>.backup holds that content; and from the moment the
\* content was read until the call ends, it is in the plaintext file or in
\* the backup.
C30_BackupBeforeDelete ==
    \A k \in DOMAIN io :
        LET fr == io[k]
        IN  (fr.fn = "encrypt_file" /\ fr.data # Absent)
            => /\ \/ fs[fr.input] = fr.data
                  \/ fs[BackupPath(fr.input)] = fr.data
               /\ Head(fr.code).do = "return True"
                  => /\ ~Exists(fs, fr.input)
                     /\ fs[EncPath(fr.input)].kind = "fernet"
                     /\ CanDecrypt(MasterKey, fs[EncPath(fr.input)])
                     /\ Decrypt(MasterKey, fs[EncPath(fr.input)]) = fr.data
                     /\ fs[BackupPath(fr.input)] = fr.data

\* encrypt_file, called by add_blocked_ip for the rewritten block-list, is
\* about to return True
C30_Witness ==
    /\ Len(io) = 2
    /\ io[1].fn = "add_blocked_ip"
    /\ io[2].fn = "encrypt_file"
    /\ Head(io[2].code).do = "return True"
    /\ "203.0.113.9" \in Range(io[2].data.data)
    /\ ~Exists(fs, temp_ips)
    /\ fs[BackupPath(temp_ips)] = io[2].data

----------------------------------------------------------------------------
(* Claims about the temporary plaintext files                              *)

\* the manager functions that decrypt the block-list to temp_blocked_ips.txt
TempUsers == {"get_blocked_ips", "add_blocked_ip", "remove_blocked_ip"}

\* the call fr is past its decrypt_file, which returned True
DecryptionDone(fr) ==
    /\ Head(fr.code).do \notin {"return False unless ret", "return empty unless ret"}
    /\ ~(Head(fr.code).do = "call" /\ Head(fr.code).fn = "decrypt_file")

\* C31: when get_blocked_ips, add_blocked_ip or remove_blocked_ip returns
\* after its decryption succeeded, on the success path or because a later
\* file access raised, the temporary plaintext file does not exist.
C31_TemporaryPlaintextRemoved ==
    [][(/\ Len(io) = 1
        /\ io' = <<>>
        /\ io[1].fn \in TempUsers
        /\ DecryptionDone(io[1]))
       => ~Exists(fs', temp_ips)]_vars

----------------------------------------------------------------------------
(* Claims about the answers of the block-list queries                      *)

\* get_blocked_ports / get_blocked_ips / is_ip_whitelisted can decrypt the list
Readable(f, path) == CanDecrypt(MasterKey, f[path])

\* C32: when the encrypted list cannot be read or decrypted, is_ip_blocked,
\* is_port_blocked and is_ip_whitelisted do not give the answer they give
\* for a list that was read and does not hold the identifier (False).
C32_FailedReadNotAbsent ==
    [][/\ \A port \in QryPorts :
             (CallIsPortBlocked(port) /\ ~Readable(fs, blocked_ports_file))
             => port_result'.ok # FALSE
       /\ \A ip \in QryIps :
             /\ (CallIsIpBlocked(ip) /\ ~Readable(fs, blocked_ips_file))
                => fw_result'.ok # FALSE
             /\ (CallIsIpWhitelisted(ip) /\ ~Readable(fs, whitelist_file))
                => fw_result'.ok # FALSE]_vars

----------------------------------------------------------------------------
(* Claims about the blocked-port list                                      *)

\* C33: whatever block_port, unblock_port and emergency_block_all_unencrypted
\* calls were made, also on a blocked-port file that is missing or damaged,
\* the blocked-port list (the stored one when the file can be decrypted, and
\* the one get_blocked_ports returns) holds no port of the always-allow set.
C33_NoAlwaysAllowedPortListed ==
    /\ Readable(fs, blocked_ports_file)
       => Range(ParsePorts(Decrypt(MasterKey, fs[blocked_ports_file]).data))
              \cap always_allow = {}
    /\ \A port \in always_allow : ~IsPortBlocked(fs, port)

\* the emergency function has run on a damaged blocked-port file: the list
\* was written again from the fallback, with 9090 and without 8080
C33_Witness ==
    /\ port_result.op = "emergency_block_all_unencrypted"
    /\ fw_result = [op |-> "modified", path |-> blocked_ports_file, ok |-> TRUE]
    /\ Readable(fs, blocked_ports_file)
    /\ IsPortBlocked(fs, 9090)
    /\ ~IsPortBlocked(fs, 8080)

\* the ports of the emergency list that are not in the always-allow set
EmergencyBlockable == Range(unencrypted_ports) \ always_allow

C40_AlwaysBlockedStayBlocked ==
    /\ [](\A port \in Range(always_block) : IsPortBlocked(fs, port))
    /\ [][\A port \in Range(always_block) : \A o \in Outcomes :
             UnblockPort(port, o)
             => /\ port_result' = [op |-> "unblock_port", port |-> port,
                                   ok |-> FALSE]
                /\ fs' = fs
                /\ os_rules' = os_rules]_vars

\* unblock_port(80) was refused when the blocked-port file had been written
\* with another port, and 80 is in the stored list
C40_Witness ==
    /\ port_result = [op |-> "unblock_port", port |-> 80, ok |-> FALSE]
    /\ Readable(fs, blocked_ports_file)
    /\ 8888 \in Range(ParsePorts(Decrypt(MasterKey, fs[blocked_ports_file]).data))
    /\ 80 \in Range(ParsePorts(Decrypt(MasterKey, fs[blocked_ports_file]).data))

----------------------------------------------------------------------------
(* Claims about the live set of the websocket connections                  *)

\* C35: a connection is in the live set exactly while its handler is between
\* the register and its end and no failed broadcast has removed it; nothing
\* is sent to a connection that was not registered before; once the handler
\* has ended, on whatever path, the connection is not in the live set; and
\* the unregister at the end of a handler whose connection a failed
\* broadcast already removed leaves the live set as it is.
C35_LiveSetFollowsHandler ==
    /\ [](\A ws \in WsIds :
             /\ ws \in connections
                <=> (handler[ws] \in Live /\ ws \notin ws_hist.dropped)
             /\ ws \in ws_hist.sent => ws \in ws_hist.registered
             /\ handler[ws] = "ended" => ws \notin connections)
    /\ [][\A ws \in WsIds :
             (handler[ws] \in Live /\ handler'[ws] = "ended"
              /\ ws \in ws_hist.dropped)
             => connections' = connections]_vars

\* the handler of c1 has ended after a failed broadcast had removed c1,
\* while c2 is still connected and in the live set
C35_Witness ==
    /\ handler["c1"] = "ended"
    /\ "c1" \in ws_hist.dropped
    /\ handler["c2"] = "receive"
    /\ connections = {"c2"}

----------------------------------------------------------------------------
(* Claims about the counters and the registry of the alert system          *)

\* the alerts of the history with the given value of resolved
HistoryCount(resolved) ==
    Cardinality({i \in DOMAIN alert_history : alert_history[i].resolved = resolved})

\* C36: the counters agree with the alerts: stats['active_alerts'] is the
\* number of alerts that are not resolved and is never negative, and
\* stats['resolved_alerts'] is the number of resolved alerts, whatever
\* create, acknowledge and resolve calls were made.
C36_CountersAgreeWithAlerts ==
    /\ stats.active_alerts = HistoryCount(FALSE)
    /\ stats.active_alerts >= 0
    /\ stats.resolved_alerts = HistoryCount(TRUE)

\* C37: the id registry and the history hold the same alerts: for every alert
\* a of the history, alerts[a.id] is a itself, so every created alert is still
\* reachable through its id and is counted by the queries over the registry.
C37_RegistryHoldsHistory ==
    \A i \in DOMAIN alert_history :
        /\ alert_history[i].id \in DOMAIN alerts
        /\ alerts[alert_history[i].id] = i

\* alert a of the history was created by _auto_block_ip during the create of
\* the alert before it
Synthesized(a) == alert_history[a].metadata = "auto_blocked"

\* the place of alert a in the order in which create calls reach their
\* publish: a synthesized alert comes right before the alert that triggered it
PublishRank(a) == IF Synthesized(a) THEN 2 * (a - 1) - 1 ELSE 2 * a

C39_BenignAnalysisKeepsReputation ==
    [][(/\ observed' # observed
        /\ result'.op = "analyze_packet"
        /\ result'.threats = <<>>)
       => /\ malicious_ips' = malicious_ips
          /\ DOMAIN suspicious_ips' = DOMAIN suspicious_ips
          /\ Cardinality(DOMAIN suspicious_ips') =
                 Cardinality(DOMAIN suspicious_ips)]_vars

====
